---- MODULE Spec2Model ----
(***************************************************************************)
(* A model of lukechu10/derivative-machine: lexer, Pratt parser, rule      *)
(* matcher/writer, the fixed-point rewrite driver, the Simplify and        *)
(* Prettify visitors, the derivative rule set and the add_item             *)
(* orchestrator.                                                           *)
(*                                                                         *)
(* Values.  An f64 is a pair <<n, d>>: a finite value is the reduced       *)
(* fraction n/d with d > 0, <<0,1>> is +0.0, <<0,-1>> is -0.0, <<1,0>> is  *)
(* +inf, <<-1,0>> is -inf and <<0,0>> is NaN.  Arithmetic is exact on the  *)
(* fractions (no rounding); the IEEE special cases are kept.               *)
(* An Expr is a tagged tuple: <<"lit", f>>, <<"id", name>>,                *)
(* <<"bin", op, l, r>>, <<"un", op, r>>, <<"err">>; a name is a sequence   *)
(* of one-character strings.  A RuleExpr uses the same shape with the      *)
(* wildcards <<"any", id>>, <<"anylit", id>>, <<"anynonlit", id>>.         *)
(***************************************************************************)
EXTENDS Integers, Sequences, FiniteSets, TLC

(***************************************************************************)
(* f64                                                                     *)
(***************************************************************************)
Abs(n) == IF n < 0 THEN -n ELSE n

RECURSIVE GCD(_, _)
GCD(a, b) == IF b = 0 THEN a ELSE GCD(b, a % b)

NaN == <<0, 0>>
PosInf == <<1, 0>>
NegInf == <<-1, 0>>
PosZero == <<0, 1>>
NegZero == <<0, -1>>

IsNaN(f) == f = NaN
IsInf(f) == f[2] = 0 /\ f[1] # 0
IsZero(f) == f[1] = 0 /\ f[2] # 0
\* the sign bit of a non-NaN value
SignNeg(f) == f[1] < 0 \/ f = NegZero

\* the finite value n/d (d # 0) with the given sign on a zero result
Norm(n, d, negzero) ==
    IF n = 0 THEN (IF negzero THEN NegZero ELSE PosZero)
    ELSE LET s == IF d < 0 THEN -1 ELSE 1
             g == GCD(Abs(n), Abs(d))
         IN  <<(s * n) \div g, (s * d) \div g>>

\* numerator and denominator of a finite value, zeros as 0/1
Num(f) == f[1]
Den(f) == IF f[1] = 0 THEN 1 ELSE f[2]

Signed(neg, f) == IF neg THEN <<-f[1], IF f[1] = 0 THEN -f[2] ELSE f[2]>> ELSE f

\* f64 `==`
FEq(a, b) == ~IsNaN(a) /\ ~IsNaN(b) /\ (a = b \/ (IsZero(a) /\ IsZero(b)))
\* f64 `< 0.0` and `>= 0.0`
FLtZero(a) == ~IsNaN(a) /\ a[1] < 0
FGeZero(a) == ~IsNaN(a) /\ a[1] >= 0

\* unary minus
FNeg(a) == IF IsNaN(a) THEN NaN ELSE <<-a[1], IF a[1] = 0 THEN -a[2] ELSE a[2]>>

FAdd(a, b) ==
    IF IsNaN(a) \/ IsNaN(b) THEN NaN
    ELSE IF IsInf(a) THEN (IF IsInf(b) /\ a # b THEN NaN ELSE a)
    ELSE IF IsInf(b) THEN b
    ELSE Norm(Num(a) * Den(b) + Num(b) * Den(a), Den(a) * Den(b),
              a = NegZero /\ b = NegZero)

FMul(a, b) ==
    LET neg == SignNeg(a) # SignNeg(b) IN
    IF IsNaN(a) \/ IsNaN(b) THEN NaN
    ELSE IF IsInf(a) \/ IsInf(b)
         THEN (IF IsZero(a) \/ IsZero(b) THEN NaN ELSE Signed(neg, PosInf))
    ELSE Norm(Num(a) * Num(b), Den(a) * Den(b), neg)

FDiv(a, b) ==
    LET neg == SignNeg(a) # SignNeg(b) IN
    IF IsNaN(a) \/ IsNaN(b) THEN NaN
    ELSE IF IsInf(a) THEN (IF IsInf(b) THEN NaN ELSE Signed(neg, PosInf))
    ELSE IF IsInf(b) THEN Signed(neg, PosZero)
    ELSE IF IsZero(b) THEN (IF IsZero(a) THEN NaN ELSE Signed(neg, PosInf))
    ELSE Norm(Num(a) * Den(b), Den(a) * Num(b), neg)

RECURSIVE IPow(_, _)
IPow(b, k) == IF k = 0 THEN 1 ELSE b * IPow(b, k - 1)

IsInteger(f) == f[2] = 1 \/ f = NegZero
\* |a| compared with 1, for a finite or infinite non-NaN value
AbsLtOne(a) == ~IsInf(a) /\ Abs(Num(a)) < Den(a)

\* the exact q-th root of the positive integer p (undefined when irrational)
Root(p, q) == CHOOSE r \in 1..p : IPow(r, q) = p

\* f64::powf
Powf(a, b) ==
    IF IsZero(b) THEN <<1, 1>>
    ELSE IF a = <<1, 1>> THEN <<1, 1>>
    ELSE IF IsNaN(a) \/ IsNaN(b) THEN NaN
    ELSE IF IsInf(b) THEN
         IF a = <<-1, 1>> THEN <<1, 1>>
         ELSE IF AbsLtOne(a) = (b = PosInf) THEN PosZero ELSE PosInf
    ELSE IF IsInteger(b) THEN
         LET k == Abs(Num(b))
             odd == k % 2 = 1
             neg == SignNeg(a) /\ odd
         IN  IF IsZero(a) \/ IsInf(a)
             THEN (IF IsZero(a) = (Num(b) > 0)
                   THEN Signed(neg, PosZero) ELSE Signed(neg, PosInf))
             ELSE IF Num(b) > 0
                  THEN Norm(IPow(Num(a), k), IPow(Den(a), k), FALSE)
                  ELSE Norm(IPow(Den(a), k), IPow(Num(a), k), FALSE)
    ELSE \* a finite exponent that is not an integer
         IF IsZero(a) \/ IsInf(a)
         THEN (IF IsZero(a) = (Num(b) > 0) THEN PosZero ELSE PosInf)
         ELSE IF Num(a) < 0 THEN NaN
         ELSE LET k == Abs(Num(b))
                  q == Den(b)
                  rn == Root(Num(a), q)
                  rd == Root(Den(a), q)
              IN  IF Num(b) > 0
                  THEN Norm(IPow(rn, k), IPow(rd, k), FALSE)
                  ELSE Norm(IPow(rd, k), IPow(rn, k), FALSE)

\* the f64 of an integer
F(n) == <<n, 1>>

(***************************************************************************)
(* Expr and RuleExpr                                                       *)
(***************************************************************************)
Lit(f) == <<"lit", f>>
Num0(n) == <<"lit", <<n, 1>>>>
Id(name) == <<"id", name>>
Bin(l, op, r) == <<"bin", op, l, r>>
Un(op, r) == <<"un", op, r>>
Err == <<"err">>

AnySubExpr(id) == <<"any", id>>
AnyLiteral(id) == <<"anylit", id>>
AnyNonLiteral(id) == <<"anynonlit", id>>

\* a panic of the program (expect(), unwrap(), unreachable!()): it aborts
\* whatever operation is running, so every operator passes it on
Panic == <<"panic">>

\* (CHOOSE val \in {e(v) : v \in {d}} : TRUE) is e of the value of d, with d
\* computed once

\* Expr::Binary { left, op, right } and Expr::Unary { op, right } built
\* from computed parts
MkBin(l, op, r) ==
    (CHOOSE val \in {IF a = Panic \/ b = Panic THEN Panic ELSE Bin(a, op, b) :
                     a \in {l}, b \in {r}} : TRUE)
MkUn(op, r) ==
    (CHOOSE val \in {IF a = Panic THEN Panic ELSE Un(op, a) : a \in {r}} : TRUE)

\* #[derive(PartialEq)] on Expr: literals compare as f64
RECURSIVE ExprEq(_, _)
ExprEq(a, b) ==
    IF a[1] # b[1] THEN FALSE
    ELSE IF a[1] = "lit" THEN FEq(a[2], b[2])
    ELSE IF a[1] = "id" THEN a[2] = b[2]
    ELSE IF a[1] = "bin" THEN a[2] = b[2] /\ ExprEq(a[3], b[3]) /\ ExprEq(a[4], b[4])
    ELSE IF a[1] = "un" THEN a[2] = b[2] /\ ExprEq(a[3], b[3])
    ELSE TRUE

\* the same tree node by node, literals compared as numbers and a NaN
\* literal counting as equal to a NaN literal
RECURSIVE Same(_, _)
Same(a, b) ==
    IF a[1] # b[1] THEN FALSE
    ELSE IF a[1] = "lit" THEN FEq(a[2], b[2]) \/ (IsNaN(a[2]) /\ IsNaN(b[2]))
    ELSE IF a[1] = "id" THEN a[2] = b[2]
    ELSE IF a[1] = "bin" THEN a[2] = b[2] /\ Same(a[3], b[3]) /\ Same(a[4], b[4])
    ELSE IF a[1] = "un" THEN a[2] = b[2] /\ Same(a[3], b[3])
    ELSE TRUE

RECURSIVE HasErr(_)
HasErr(e) ==
    IF e[1] = "bin" THEN HasErr(e[3]) \/ HasErr(e[4])
    ELSE IF e[1] = "un" THEN HasErr(e[3])
    ELSE e[1] = "err"

RECURSIVE HasMinus(_)
HasMinus(e) ==
    IF e[1] = "bin" THEN e[2] = "-" \/ HasMinus(e[3]) \/ HasMinus(e[4])
    ELSE IF e[1] = "un" THEN HasMinus(e[3])
    ELSE FALSE

(***************************************************************************)
(* rule.rs: matching a pattern and writing a template                      *)
(***************************************************************************)
\* insert_added_match without the test on an existing binding
insert_added_match_overwrite(m, id, expr) ==
    <<TRUE, [i \in DOMAIN m \cup {id} |-> IF i = id THEN expr ELSE m[i]]>>

\* insert_added_match that accepts a second sub-expression for a bound id
\* and keeps the first
insert_added_match_keep_first(m, id, expr) ==
    <<TRUE, [i \in DOMAIN m \cup {id} |-> IF i \in DOMAIN m THEN m[i] ELSE expr]>>

\* the closure insert_added_match: whether the wildcard matched, and the
\* bindings after the insert
insert_added_match(m, id, expr) ==
    IF id \notin DOMAIN m \/ ExprEq(m[id], expr)
    THEN <<TRUE, [i \in DOMAIN m \cup {id} |-> IF i = id THEN expr ELSE m[i]]>>
    ELSE <<FALSE, m>>

RECURSIVE match_expr_inner(_, _, _)
\* the literal and the non-literal wildcard taking any expression
match_expr_inner_any_kind(rule, expr, m) ==
    CASE rule[1] = "lit" -> <<expr[1] = "lit" /\ FEq(expr[2], rule[2]), m>>
      [] rule[1] \in {"any", "anylit", "anynonlit"} -> insert_added_match(m, rule[2], expr)
      [] rule[1] = "bin" /\ expr[1] = "bin" /\ expr[2] = rule[2] ->
            (CHOOSE val \in {IF l[1] THEN match_expr_inner(rule[4], expr[4], l[2]) ELSE l :
                             l \in {match_expr_inner(rule[3], expr[3], m)}} : TRUE)
      [] rule[1] = "un" /\ expr[1] = "un" /\ expr[2] = rule[2] ->
            match_expr_inner(rule[3], expr[3], m)
      [] OTHER -> <<FALSE, m>>

match_expr_inner(rule, expr, m) ==
    CASE rule[1] = "lit" -> <<expr[1] = "lit" /\ FEq(expr[2], rule[2]), m>>
      [] rule[1] = "any" -> insert_added_match(m, rule[2], expr)
      [] rule[1] = "anylit" /\ expr[1] = "lit" -> insert_added_match(m, rule[2], expr)
      [] rule[1] = "anynonlit" /\ expr[1] # "lit" -> insert_added_match(m, rule[2], expr)
      [] rule[1] = "bin" /\ expr[1] = "bin" /\ expr[2] = rule[2] ->
            (CHOOSE val \in {IF l[1] THEN match_expr_inner(rule[4], expr[4], l[2]) ELSE l :
                             l \in {match_expr_inner(rule[3], expr[3], m)}} : TRUE)
      [] rule[1] = "un" /\ expr[1] = "un" /\ expr[2] = rule[2] ->
            match_expr_inner(rule[3], expr[3], m)
      [] OTHER -> <<FALSE, m>>

NoBindings == [i \in {} |-> Err]

\* MatchResult { matches, matched_exprs }
match_expr(rule, expr) ==
    (CHOOSE val \in {[matches |-> r[1], matched_exprs |-> r[2]] :
                     r \in {match_expr_inner(rule, expr, NoBindings)}} : TRUE)

RECURSIVE write_expr(_, _)
write_expr(rule, m) ==
    CASE rule[1] = "lit" -> Lit(rule[2])
      [] rule[1] \in {"any", "anylit", "anynonlit"} ->
            IF rule[2] \in DOMAIN m THEN m[rule[2]] ELSE Panic
      [] rule[1] = "bin" ->
            MkBin(write_expr(rule[3], m), rule[2], write_expr(rule[4], m))
      [] rule[1] = "un" /\ rule[2] = "-" /\ rule[3][1] = "lit" -> Lit(FNeg(rule[3][2]))
      [] rule[1] = "un" /\ rule[2] = "-" /\ rule[3][1] = "anylit" ->
            IF rule[3][2] \in DOMAIN m /\ m[rule[3][2]][1] = "lit"
            THEN Lit(FNeg(m[rule[3][2]][2]))
            ELSE Panic
      [] rule[1] = "un" /\ rule[2] = "-" /\ rule[3][1] \notin {"lit", "anylit"} ->
            MkUn("-", write_expr(rule[3], m))
      [] rule[1] = "un" /\ rule[2] # "-" -> write_expr(rule[3], m)
      [] OTHER -> Err

(***************************************************************************)
(* Texts are sequences of one-character strings                            *)
(***************************************************************************)
Digits == <<"0", "1", "2", "3", "4", "5", "6", "7", "8", "9">>
DigitChars == {Digits[i] : i \in 1..10}
NumberChars == DigitChars \cup {"."}
LetterChars == {"x", "y", "e", "r", "i", "n", "f", "N", "a", "b", "c"}
SpaceChars == {" ", "\t", "\n", "\f"}

DigitVal(c) == (CHOOSE i \in 1..10 : Digits[i] = c) - 1

\* the end of the longest run of characters of class cs that starts at i
RunEnd(text, i, cs) ==
    CHOOSE j \in i..Len(text) :
        /\ \A k \in i..j : text[k] \in cs
        /\ (j = Len(text) \/ text[j + 1] \notin cs)

\* the value of a run of digits, most significant first
RECURSIVE DigitsVal(_)
DigitsVal(ds) ==
    IF Len(ds) = 0 THEN 0
    ELSE 10 * DigitsVal(SubSeq(ds, 1, Len(ds) - 1)) + DigitVal(ds[Len(ds)])

\* str::parse::<f64> on a slice matched by [0-9.]+ : <<TRUE, value>>, or
\* <<FALSE, _>> when the slice is not a number (no digit, or two dots)
ParseNumber(sl) ==
    LET dots == {k \in 1..Len(sl) : sl[k] = "."}
    IN  IF Cardinality(dots) > 1 \/ Cardinality(dots) = Len(sl) THEN <<FALSE, NaN>>
        ELSE IF dots = {} THEN <<TRUE, Norm(DigitsVal(sl), 1, FALSE)>>
        ELSE LET d == CHOOSE k \in dots : TRUE
                 ip == SubSeq(sl, 1, d - 1)
                 fp == SubSeq(sl, d + 1, Len(sl))
             IN  <<TRUE, Norm(DigitsVal(ip) * IPow(10, Len(fp)) + DigitsVal(fp),
                              IPow(10, Len(fp)), FALSE)>>

(***************************************************************************)
(* rule/lexer.rs and rule/parser.rs: a rule string becomes a RuleExpr      *)
(***************************************************************************)
\* a RuleToken is a tuple: <<"Literal", f>>, <<"AnySubExpr", id>>,
\* <<"AnyLiteral", id>>, <<"AnyNonLiteral", id>>, <<"Plus">>, <<"Minus">>,
\* <<"Asterisk">>, <<"Slash">>, <<"Exponent">>, <<"OpenParen">>,
\* <<"CloseParen">>, <<"Error">>

\* whether the text has the characters of word from position i on
StartsWith(text, i, word) ==
    i + Len(word) - 1 <= Len(text) /\ SubSeq(text, i, i + Len(word) - 1) = word

\* str::parse::<i32> on a slice matched by [0-9.]+ : a dot makes it fail
ParseId(sl) ==
    IF \E k \in 1..Len(sl) : sl[k] = "." THEN <<FALSE, 0>> ELSE <<TRUE, DigitsVal(sl)>>

\* a wildcard token: the prefix, then [0-9.]+ parsed as the id
WildcardToken(text, i, prefix, kind) ==
    LET from == i + Len(prefix)
        j == RunEnd(text, from, NumberChars)
        id == ParseId(SubSeq(text, from, j))
    IN  <<IF id[1] THEN <<kind, id[2]>> ELSE <<"Error">>, j + 1>>

IsWildcard(text, i, prefix) ==
    /\ StartsWith(text, i, prefix)
    /\ i + Len(prefix) <= Len(text)
    /\ text[i + Len(prefix)] \in NumberChars

\* the rule token that starts at position i and the position after it
RuleNextToken(text, i) ==
    LET c == text[i] IN
    CASE c \in NumberChars ->
            LET j == RunEnd(text, i, NumberChars)
                n == ParseNumber(SubSeq(text, i, j))
            IN  <<IF n[1] THEN <<"Literal", n[2]>> ELSE <<"Error">>, j + 1>>
      [] IsWildcard(text, i, <<"_">>) -> WildcardToken(text, i, <<"_">>, "AnySubExpr")
      [] IsWildcard(text, i, <<"_", "l", "i", "t">>) ->
            WildcardToken(text, i, <<"_", "l", "i", "t">>, "AnyLiteral")
      [] IsWildcard(text, i, <<"_", "n", "o", "n", "l", "i", "t">>) ->
            WildcardToken(text, i, <<"_", "n", "o", "n", "l", "i", "t">>, "AnyNonLiteral")
      [] c \in SpaceChars -> <<<<"Skip">>, RunEnd(text, i, SpaceChars) + 1>>
      [] c = "+" -> <<<<"Plus">>, i + 1>>
      [] c = "-" -> <<<<"Minus">>, i + 1>>
      [] c = "*" ->
            IF StartsWith(text, i, <<"*", "*">>)
            THEN <<<<"Exponent">>, i + 2>> ELSE <<<<"Asterisk">>, i + 1>>
      [] c = "/" -> <<<<"Slash">>, i + 1>>
      [] c = "^" -> <<<<"Exponent">>, i + 1>>
      [] c = "(" -> <<<<"OpenParen">>, i + 1>>
      [] c = ")" -> <<<<"CloseParen">>, i + 1>>
      [] OTHER -> <<<<"Error">>, i + 1>>

\* RuleToken::lexer(text), collected
RECURSIVE RuleLexFrom(_, _)
RuleLexFrom(text, i) ==
    IF i > Len(text) THEN <<>>
    ELSE LET t == RuleNextToken(text, i)
         IN  IF t[1] = <<"Skip">> THEN RuleLexFrom(text, t[2])
             ELSE <<t[1]>> \o RuleLexFrom(text, t[2])

RuleLexer(text) == RuleLexFrom(text, 1)

rule_get_infix_bp(tok) ==
    CASE tok[1] \in {"Plus", "Minus"} -> <<1, 2>>
      [] tok[1] \in {"Asterisk", "Slash"} -> <<3, 4>>
      [] tok[1] = "Exponent" -> <<6, 5>>
      [] OTHER -> <<-1, -1>>

rule_get_prefix_bp(tok) == IF tok[1] \in {"Plus", "Minus"} THEN 8 ELSE -1

\* impl TryFrom<RuleToken> for BinOpKind and for UnaryOpKind
RuleBinOpOf(tok) ==
    CASE tok[1] = "Plus" -> "+"
      [] tok[1] = "Minus" -> "-"
      [] tok[1] = "Asterisk" -> "*"
      [] tok[1] = "Slash" -> "/"
      [] tok[1] = "Exponent" -> "^"
RuleUnaryOpOf(tok) == IF tok[1] = "Plus" THEN "+" ELSE "-"

\* the rule parser state is <<"parser", toks, pos, errors>>; current_tok is
\* toks[pos], or Error once the lexer is exhausted
RuleParserFrom(toks) ==
    IF toks = <<>> THEN Panic ELSE <<"parser", toks, 1, <<>>>>
rule_current_tok(ps) == IF ps[3] <= Len(ps[2]) THEN ps[2][ps[3]] ELSE <<"Error">>
rule_eat_tok(ps) == [ps EXCEPT ![3] = IF ps[3] <= Len(ps[2]) THEN ps[3] + 1 ELSE ps[3]]
\* unexpected(expected) pushes format!("unexpected token, expected {}",
\* expected): msg is the formatted message
rule_unexpected(ps, msg) == [ps EXCEPT ![4] = Append(ps[4], msg)]

RECURSIVE rule_parse_expr_bp(_, _)
RECURSIVE rule_infix_loop(_, _, _)

rule_parse_atom(ps) ==
    LET tok == rule_current_tok(ps)
        ps1 == rule_eat_tok(ps)
    IN  CASE tok[1] = "Literal" -> <<Lit(tok[2]), ps1>>
          [] tok[1] = "AnySubExpr" -> <<AnySubExpr(tok[2]), ps1>>
          [] tok[1] = "AnyLiteral" -> <<AnyLiteral(tok[2]), ps1>>
          [] tok[1] = "AnyNonLiteral" -> <<AnyNonLiteral(tok[2]), ps1>>
          [] tok[1] = "OpenParen" ->
                LET r == rule_parse_expr_bp(ps1, 0)
                IN  IF rule_current_tok(r[2])[1] = "CloseParen"
                    THEN <<r[1], rule_eat_tok(r[2])>>
                    ELSE <<Err, rule_unexpected(rule_eat_tok(r[2]),
                                                "unexpected token, expected a '(' token")>>
          [] OTHER -> <<Err, rule_unexpected(ps1,
                                             "unexpected token, expected a rule expression")>>

rule_infix_loop(ps, left, min_bp) ==
    LET bp == rule_get_infix_bp(rule_current_tok(ps))
    IN  IF bp[1] < min_bp THEN <<left, ps>>
        ELSE LET r == rule_parse_expr_bp(rule_eat_tok(ps), bp[2])
             IN  rule_infix_loop(r[2], Bin(left, RuleBinOpOf(rule_current_tok(ps)), r[1]),
                                 min_bp)

rule_parse_expr_bp(ps, min_bp) ==
    LET right_bp == rule_get_prefix_bp(rule_current_tok(ps))
        left == IF right_bp = -1 THEN rule_parse_atom(ps)
                ELSE LET r == rule_parse_expr_bp(rule_eat_tok(ps), right_bp)
                     IN  IF r[1][1] = "lit"
                         THEN <<Lit(FMul(r[1][2], F(-1))), r[2]>>
                         ELSE <<Un(RuleUnaryOpOf(rule_current_tok(ps)), r[1]), r[2]>>
    IN  rule_infix_loop(left[2], left[1], min_bp)

\* RuleExpr::new_rule_from_str
new_rule_from_str(pattern) ==
    LET from == RuleParserFrom(RuleLexer(pattern))
    IN  IF from = Panic THEN Panic ELSE rule_parse_expr_bp(from, 0)[1]

(***************************************************************************)
(* transformations.rs: rule sets and the fixed-point driver                *)
(***************************************************************************)
MAX_ITERATIONS_PER_APPLY == 500

OutPattern(out) == <<"OutPattern", out>>
OutHandler(name) == <<"OutHandler", name>>
Some(e) == <<"some", e>>
None == <<"none">>

\* new_from_str with the two loops swapped: the handler rules come first
new_from_str_handlers_first(patterns, handlers) ==
    [i \in 1..Len(handlers) |->
        [pattern |-> new_rule_from_str(handlers[i][1]),
         out |-> OutHandler(handlers[i][2])]]
    \o
    [i \in 1..Len(patterns) |->
        [pattern |-> new_rule_from_str(patterns[i][1]),
         out |-> OutPattern(new_rule_from_str(patterns[i][2]))]]

\* RuleTransformSet::new_from_str: the template rules in their order, then
\* the handler rules in theirs
new_from_str(patterns, handlers) ==
    [i \in 1..Len(patterns) |->
        [pattern |-> new_rule_from_str(patterns[i][1]),
         out |-> OutPattern(new_rule_from_str(patterns[i][2]))]]
    \o
    [i \in 1..Len(handlers) |->
        [pattern |-> new_rule_from_str(handlers[i][1]),
         out |-> OutHandler(handlers[i][2])]]

\* simplify.rs, the template rules of SIMPLIFY_TRANSFORMS
SIMPLIFY_PATTERNS ==
    <<
       \* "0 + _1" -> "_1"
       <<<<"0", " ", "+", " ", "_", "1">>,
         <<"_", "1">>>>,
       \* "_1 + 0" -> "_1"
       <<<<"_", "1", " ", "+", " ", "0">>,
         <<"_", "1">>>>,
       \* "0 * _1" -> "0"
       <<<<"0", " ", "*", " ", "_", "1">>,
         <<"0">>>>,
       \* "_1 * 0" -> "0"
       <<<<"_", "1", " ", "*", " ", "0">>,
         <<"0">>>>,
       \* "1 * _1" -> "_1"
       <<<<"1", " ", "*", " ", "_", "1">>,
         <<"_", "1">>>>,
       \* "_1 * 1" -> "_1"
       <<<<"_", "1", " ", "*", " ", "1">>,
         <<"_", "1">>>>,
       \* "_1 / 1" -> "_1"
       <<<<"_", "1", " ", "/", " ", "1">>,
         <<"_", "1">>>>,
       \* "_1 - _1" -> "0"
       <<<<"_", "1", " ", "-", " ", "_", "1">>,
         <<"0">>>>,
       \* "_1 + -_1" -> "0"
       <<<<"_", "1", " ", "+", " ", "-", "_", "1">>,
         <<"0">>>>,
       \* "_1 / _1" -> "1"
       <<<<"_", "1", " ", "/", " ", "_", "1">>,
         <<"1">>>>,
       \* "_1 + _1" -> "2 * _1"
       <<<<"_", "1", " ", "+", " ", "_", "1">>,
         <<"2", " ", "*", " ", "_", "1">>>>,
       \* "_1 ^ 0" -> "1"
       <<<<"_", "1", " ", "^", " ", "0">>,
         <<"1">>>>,
       \* "_1 ^ 1" -> "_1"
       <<<<"_", "1", " ", "^", " ", "1">>,
         <<"_", "1">>>>,
       \* "1 ^ _1" -> "1"
       <<<<"1", " ", "^", " ", "_", "1">>,
         <<"1">>>>,
       \* "(_1 ^ _lit2) ^ _lit3" -> "_1 ^ (_lit2 * _lit3)"
       <<<<"(", "_", "1", " ", "^", " ", "_", "l", "i", "t", "2", ")", " ", "^", " ", "_", "l", "i", "t", "3">>,
         <<"_", "1", " ", "^", " ", "(", "_", "l", "i", "t", "2", " ", "*", " ", "_", "l", "i", "t", "3", ")">>>>,
       \* "(_1 ^ _2) * (_1 ^ _3)" -> "_1 ^ (_2 + _3)"
       <<<<"(", "_", "1", " ", "^", " ", "_", "2", ")", " ", "*", " ", "(", "_", "1", " ", "^", " ", "_", "3", ")">>,
         <<"_", "1", " ", "^", " ", "(", "_", "2", " ", "+", " ", "_", "3", ")">>>>,
       \* "(_lit1 * _2) / _lit1" -> "_2"
       <<<<"(", "_", "l", "i", "t", "1", " ", "*", " ", "_", "2", ")", " ", "/", " ", "_", "l", "i", "t", "1">>,
         <<"_", "2">>>>,
       \* "(_lit1 * _2) / _lit3" -> "(_lit1 / _lit3) * _2"
       <<<<"(", "_", "l", "i", "t", "1", " ", "*", " ", "_", "2", ")", " ", "/", " ", "_", "l", "i", "t", "3">>,
         <<"(", "_", "l", "i", "t", "1", " ", "/", " ", "_", "l", "i", "t", "3", ")", " ", "*", " ", "_", "2">>>>,
       \* "(_2 * _1) + _1" -> "_1 * (_2 + 1)"
       <<<<"(", "_", "2", " ", "*", " ", "_", "1", ")", " ", "+", " ", "_", "1">>,
         <<"_", "1", " ", "*", " ", "(", "_", "2", " ", "+", " ", "1", ")">>>>,
       \* "_lit1 + (_lit2 + _3)" -> "(_lit1 + _lit2) + _3"
       <<<<"_", "l", "i", "t", "1", " ", "+", " ", "(", "_", "l", "i", "t", "2", " ", "+", " ", "_", "3", ")">>,
         <<"(", "_", "l", "i", "t", "1", " ", "+", " ", "_", "l", "i", "t", "2", ")", " ", "+", " ", "_", "3">>>>,
       \* "_lit1 * (_lit2 * _3)" -> "(_lit1 * _lit2) * _3"
       <<<<"_", "l", "i", "t", "1", " ", "*", " ", "(", "_", "l", "i", "t", "2", " ", "*", " ", "_", "3", ")">>,
         <<"(", "_", "l", "i", "t", "1", " ", "*", " ", "_", "l", "i", "t", "2", ")", " ", "*", " ", "_", "3">>>>,
       \* "_lit1 * (_lit2 / _3)" -> "(_lit1 * _lit2) / _3"
       <<<<"_", "l", "i", "t", "1", " ", "*", " ", "(", "_", "l", "i", "t", "2", " ", "/", " ", "_", "3", ")">>,
         <<"(", "_", "l", "i", "t", "1", " ", "*", " ", "_", "l", "i", "t", "2", ")", " ", "/", " ", "_", "3">>>>,
       \* "_nonlit1 + _lit2" -> "_lit2 + _nonlit1"
       <<<<"_", "n", "o", "n", "l", "i", "t", "1", " ", "+", " ", "_", "l", "i", "t", "2">>,
         <<"_", "l", "i", "t", "2", " ", "+", " ", "_", "n", "o", "n", "l", "i", "t", "1">>>>,
       \* "_1 - _lit2" -> "-_lit2 + _1"
       <<<<"_", "1", " ", "-", " ", "_", "l", "i", "t", "2">>,
         <<"-", "_", "l", "i", "t", "2", " ", "+", " ", "_", "1">>>>,
       \* "_nonlit1 * _lit2" -> "_lit2 * _nonlit1"
       <<<<"_", "n", "o", "n", "l", "i", "t", "1", " ", "*", " ", "_", "l", "i", "t", "2">>,
         <<"_", "l", "i", "t", "2", " ", "*", " ", "_", "n", "o", "n", "l", "i", "t", "1">>>> >>

\* simplify.rs, the handler rules (fold arithmetic operators)
\* the handlers without the fold of a quotient of literals
SIMPLIFY_HANDLERS_no_quotient ==
    <<
       <<<<"_", "l", "i", "t", "1", " ", "+", " ", "_", "l", "i", "t", "2">>,
         "fold_plus">>,
       <<<<"_", "l", "i", "t", "1", " ", "*", " ", "_", "l", "i", "t", "2">>,
         "fold_asterisk">>,
       <<<<"_", "l", "i", "t", "1", " ", "^", " ", "_", "l", "i", "t", "2">>,
         "fold_exponent">> >>

SIMPLIFY_HANDLERS ==
    <<
       \* "_lit1 + _lit2" -> "fold_plus"
       <<<<"_", "l", "i", "t", "1", " ", "+", " ", "_", "l", "i", "t", "2">>,
         "fold_plus">>,
       \* "_lit1 * _lit2" -> "fold_asterisk"
       <<<<"_", "l", "i", "t", "1", " ", "*", " ", "_", "l", "i", "t", "2">>,
         "fold_asterisk">>,
       \* "_lit1 / _lit2" -> "fold_slash"
       <<<<"_", "l", "i", "t", "1", " ", "/", " ", "_", "l", "i", "t", "2">>,
         "fold_slash">>,
       \* "_lit1 ^ _lit2" -> "fold_exponent"
       <<<<"_", "l", "i", "t", "1", " ", "^", " ", "_", "l", "i", "t", "2">>,
         "fold_exponent">> >>

SIMPLIFY_TRANSFORMS == new_from_str(SIMPLIFY_PATTERNS, SIMPLIFY_HANDLERS)

\* a template with a wildcard the pattern does not bind
PRETTIFY_PATTERNS_unbound ==
    <<
       <<<<"0", ".", "5">>,
         <<"_", "1", " ", "/", " ", "2">>>> >>

\* prettify.rs
PRETTIFY_PATTERNS ==
    <<
       \* "0.5" -> "1 / 2"
       <<<<"0", ".", "5">>,
         <<"1", " ", "/", " ", "2">>>> >>
\* no rule for the negative exponent
PRETTIFY_HANDLERS_without == <<>>

PRETTIFY_HANDLERS ==
    <<
       \* "_1 ^ _lit2" -> "negative_exponent"
       <<<<"_", "1", " ", "^", " ", "_", "l", "i", "t", "2">>,
         "negative_exponent">> >>
PRETTIFY_TRANSFORMS == new_from_str(PRETTIFY_PATTERNS, PRETTIFY_HANDLERS)

\* the template the prettify handler writes, and the rule it parses to
NEGATIVE_EXPONENT_OUT == <<"1", " ", "/", " ", "_", "1", " ", "^", " ", "-", "_", "l", "i", "t", "2">>
NEGATIVE_EXPONENT_RULE == new_rule_from_str(NEGATIVE_EXPONENT_OUT)

\* derivative.rs
DERIVATIVE_PATTERNS ==
    <<
       \* "_lit1" -> "0"
       <<<<"_", "l", "i", "t", "1">>,
         <<"0">>>> >>
\* the sum differentiated by the handler of the product
DERIVATIVE_HANDLERS_sum_as_product ==
    <<
       <<<<"_", "1">>,
         "d_identifier">>,
       <<<<"-", "_", "1">>,
         "d_unary_minus">>,
       <<<<"_", "1", " ", "+", " ", "_", "2">>,
         "d_asterisk">>,
       <<<<"_", "1", " ", "*", " ", "_", "2">>,
         "d_asterisk">>,
       <<<<"_", "1", " ", "/", " ", "_", "2">>,
         "d_slash">>,
       <<<<"_", "1", " ", "^", " ", "_", "2">>,
         "d_exponent">>,
       <<<<"_", "1">>,
         "d_catch_all">> >>

DERIVATIVE_HANDLERS ==
    <<
       \* "_1" -> "d_identifier"
       <<<<"_", "1">>,
         "d_identifier">>,
       \* "-_1" -> "d_unary_minus"
       <<<<"-", "_", "1">>,
         "d_unary_minus">>,
       \* "_1 + _2" -> "d_plus"
       <<<<"_", "1", " ", "+", " ", "_", "2">>,
         "d_plus">>,
       \* "_1 * _2" -> "d_asterisk"
       <<<<"_", "1", " ", "*", " ", "_", "2">>,
         "d_asterisk">>,
       \* "_1 / _2" -> "d_slash"
       <<<<"_", "1", " ", "/", " ", "_", "2">>,
         "d_slash">>,
       \* "_1 ^ _2" -> "d_exponent"
       <<<<"_", "1", " ", "^", " ", "_", "2">>,
         "d_exponent">>,
       \* "_1" -> "d_catch_all"
       <<<<"_", "1">>,
         "d_catch_all">> >>
DERIVATIVE_TRANSFORMS == new_from_str(DERIVATIVE_PATTERNS, DERIVATIVE_HANDLERS)

X == <<"x">>

RECURSIVE derivative(_)

\* derivative(res.matched_exprs.get(&i).unwrap()), for the handlers of
\* derivative.rs
derivatives(m) == [i \in DOMAIN m |-> derivative(m[i])]

\* the handler closures of simplify.rs, prettify.rs and derivative.rs, by
\* name; d is derivatives(m)
call_handler(name, m, d) ==
    CASE name = "fold_plus" -> Some(Lit(FAdd(m[1][2], m[2][2])))
      [] name = "fold_asterisk" -> Some(Lit(FMul(m[1][2], m[2][2])))
      [] name = "fold_slash" -> Some(Lit(FDiv(m[1][2], m[2][2])))
      [] name = "fold_exponent" -> Some(Lit(Powf(m[1][2], m[2][2])))
      [] name = "negative_exponent" ->
            IF FLtZero(m[2][2])
            THEN Some(write_expr(NEGATIVE_EXPONENT_RULE, m))
            ELSE None
      [] name = "d_identifier" ->
            IF m[1][1] = "id" /\ m[1][2] = X THEN Some(Num0(1)) ELSE None
      [] name = "d_unary_minus" ->
            (CHOOSE val \in {Some(Un("-", d1)) : d1 \in {d[1]}} : TRUE)
      [] name = "d_plus" ->
            (CHOOSE val \in {Some(Bin(d1, "+", d2)) : d1 \in {d[1]}, d2 \in {d[2]}} : TRUE)
      [] name = "d_asterisk" ->
            (CHOOSE val \in {Some(Bin(Bin(d1, "*", m[2]), "+", Bin(d2, "*", m[1]))) :
                             d1 \in {d[1]}, d2 \in {d[2]}} : TRUE)
      [] name = "d_slash" ->
            (CHOOSE val \in {Some(Bin(Bin(Bin(d1, "*", m[2]), "-", Bin(d2, "*", m[1])),
                                      "/", Bin(m[2], "^", Num0(2)))) :
                             d1 \in {d[1]}, d2 \in {d[2]}} : TRUE)
      [] name = "d_exponent" ->
            (CHOOSE val \in {Some(Bin(Bin(m[2], "*", Bin(m[1], "^", Bin(m[2], "-", Num0(1)))),
                                      "*", d1)) :
                             d1 \in {d[1]}} : TRUE)
      [] name = "d_catch_all" -> Some(Err)

\* what one rule does to the expression: <<"nomatch">> when its pattern
\* does not match, None when its handler vetoes, Some(output) otherwise
apply_rule(rule, expr) ==
    CASE ~match_expr(rule.pattern, expr).matches -> <<"nomatch">>
      [] match_expr(rule.pattern, expr).matches /\ rule.out[1] = "OutPattern" ->
            Some(write_expr(rule.out[2], match_expr(rule.pattern, expr).matched_exprs))
      [] OTHER ->
            call_handler(rule.out[2], match_expr(rule.pattern, expr).matched_exprs,
                         derivatives(match_expr(rule.pattern, expr).matched_exprs))

\* the for loop over the rules, skipping the rules that do not match: the
\* index of the first rule from lo on whose pattern matches expr, 0 if none
next_match(rules, lo, expr) ==
    (CHOOSE val \in {IF I = {} THEN 0 ELSE CHOOSE i \in I : \A j \in I : i <= j :
                     I \in {{i \in lo..Len(rules) :
                               match_expr(rules[i].pattern, expr).matches}}} : TRUE)

\* RuleTransformSet::apply_rules_once: the output of the first rule, in
\* declared order, that matches and whose handler does not veto;
\* apply_rules_once_at goes on from rule i, the next rule that matches
RECURSIVE apply_rules_once_at(_, _, _)
apply_rules_once_at(rules, i, expr) ==
    IF i = 0 THEN None
    ELSE (CHOOSE val \in {IF r[1] = "some" THEN r
                          ELSE apply_rules_once_at(rules, next_match(rules, i + 1, expr), expr) :
                          r \in {apply_rule(rules[i], expr)}} : TRUE)

apply_rules_once(rules, expr) ==
    apply_rules_once_at(rules, next_match(rules, 1, expr), expr)

\* apply_rules, the for loop over the rules lo.. of one pass, from the
\* state st = <<expr, last_iter_transformed>>; apply_pass_at is its body
\* for rule i, the next rule that matches
RECURSIVE apply_pass(_, _, _)
\* the pass ended by the first rule that rewrote the expression
apply_pass_at_first_only(rules, i, st) ==
    IF i = 0 THEN st
    ELSE (CHOOSE val \in {IF r[1] = "some" THEN <<r[2], TRUE>>
                          ELSE apply_pass(rules, i + 1, <<st[1], FALSE>>) :
                          r \in {apply_rule(rules[i], st[1])}} : TRUE)

apply_pass_at(rules, i, st) ==
    IF i = 0 THEN st
    ELSE (CHOOSE val \in {apply_pass(rules, i + 1,
                                     IF r[1] = "some" THEN <<r[2], TRUE>>
                                                      ELSE <<st[1], FALSE>>) :
                          r \in {apply_rule(rules[i], st[1])}} : TRUE)

apply_pass(rules, lo, st) ==
    IF st[1] = Panic THEN st
    ELSE apply_pass_at(rules, next_match(rules, lo, st[1]), st)

\* apply_rules, one iteration i of the outer loop: a pass, then the two
\* breaks; the status is "run" when the loop goes on to i + 1
apply_iteration(rules, expr, i) ==
    (CHOOSE val \in {IF p[1] = Panic THEN <<Panic, "panic">>
                     ELSE IF ~p[2] THEN <<p[1], "fixed">>
                     ELSE IF i > MAX_ITERATIONS_PER_APPLY THEN <<p[1], "capped">>
                     ELSE <<p[1], "run">> :
                     p \in {apply_pass(rules, 1, <<expr, FALSE>>)}} : TRUE)

\* apply_rules, the iterations lo..hi of the outer loop from st = <<expr, status>>
RECURSIVE apply_block(_, _, _, _)
apply_block(rules, lo, hi, st) ==
    CASE st[2] # "run" -> st
      [] st[2] = "run" /\ lo = hi -> apply_iteration(rules, st[1], lo)
      [] OTHER ->
            (CHOOSE val \in {apply_block(rules, ((lo + hi) \div 2) + 1, hi, h) :
                             h \in {apply_block(rules, lo, (lo + hi) \div 2, st)}} : TRUE)

\* apply_rules, the outer loop from iteration lo on, taken in blocks of n,
\* 4n, 16n, ... iterations
RECURSIVE apply_loop(_, _, _, _)
apply_loop(rules, lo, n, st) ==
    IF st[2] # "run" THEN st
    ELSE (CHOOSE val \in {apply_loop(rules, lo + n, 4 * n, h) :
                          h \in {apply_block(rules, lo, lo + n - 1, st)}} : TRUE)

\* apply_rules: <<the returned expression, how the loop ended>> ("fixed":
\* a pass changed nothing, "capped": the MAX_ITERATIONS_PER_APPLY warning)
apply_rules(rules, expr) ==
    IF Len(rules) = 0 THEN <<expr, "fixed">>
    ELSE apply_loop(rules, 0, 1, <<expr, "run">>)

\* a panic below the root of a result unwinds to the caller
RECURSIVE HasPanic(_)
HasPanic(e) ==
    CASE e = Panic -> TRUE
      [] e[1] = "bin" -> HasPanic(e[3]) \/ HasPanic(e[4])
      [] e[1] = "un" -> HasPanic(e[3])
      [] OTHER -> FALSE

\* the rule set applied with apply_rules, to a fixed point or the cap
derivative_to_fixed_point(expr) ==
    (CHOOSE val \in {IF HasPanic(r[1]) THEN Panic ELSE r[1] :
                     r \in {apply_rules(DERIVATIVE_TRANSFORMS, expr)}} : TRUE)

\* derivative.rs: derivative(expr); the expect() on None is a panic
derivative(expr) ==
    (CHOOSE val \in {IF r = None \/ HasPanic(r[2]) THEN Panic ELSE r[2] :
                     r \in {apply_rules_once(DERIVATIVE_TRANSFORMS, expr)}} : TRUE)

(***************************************************************************)
(* parser.rs walk_expr and the visitors Simplify and Prettify: the visited *)
(* tree and whether any apply_rules call logged the iteration warning      *)
(***************************************************************************)
RECURSIVE visit(_, _)
walk_expr(rules, expr) ==
    CASE expr[1] = "bin" ->
            (CHOOSE val \in {<<MkBin(l[1], expr[2], r[1]), l[2] \/ r[2]>> :
                             l \in {visit(rules, expr[3])},
                             r \in {visit(rules, expr[4])}} : TRUE)
      [] expr[1] = "un" ->
            (CHOOSE val \in {<<MkUn(expr[2], r[1]), r[2]>> :
                             r \in {visit(rules, expr[3])}} : TRUE)
      [] OTHER -> <<expr, FALSE>>

visit(rules, expr) ==
    (CHOOSE val \in
        {(CHOOSE val \in
            {(CHOOSE val \in {IF w1[1] = Panic \/ a[1] = Panic THEN <<Panic, FALSE>>
                              ELSE <<w2[1], w1[2] \/ a[2] = "capped" \/ w2[2]>> :
                              w2 \in {walk_expr(rules, a[1])}} : TRUE) :
             a \in {apply_rules(rules, w1[1])}} : TRUE) :
         w1 \in {walk_expr(rules, expr)}} : TRUE)

Simplify(expr) == visit(SIMPLIFY_TRANSFORMS, expr)[1]
Prettify(expr) == visit(PRETTIFY_TRANSFORMS, expr)[1]

(***************************************************************************)
(* lexer.rs: a text is a sequence of one-character strings                 *)
(***************************************************************************)
\* a Token is a tuple: <<"Number", f>>, <<"Identifier", name>>, <<"Plus">>,
\* <<"Minus">>, <<"Asterisk">>, <<"Slash">>, <<"Exponent">>, <<"OpenParen">>,
\* <<"CloseParen">>, <<"Error">>, <<"Eof">>

\* the tokens the parser matches on that the lexer of lexer.rs does not
\* have: the two parentheses, and ** as a second spelling of ^
NoToken == <<"NoToken">>
ParenToken(text, i) ==
    CASE text[i] = "(" -> <<<<"OpenParen">>, i + 1>>
      [] text[i] = ")" -> <<<<"CloseParen">>, i + 1>>
      [] text[i] = "*" /\ i < Len(text) /\ text[i + 1] = "*" -> <<<<"Exponent">>, i + 2>>
      [] OTHER -> NoToken

\* the token that starts at position i and the position after it; skipped
\* whitespace gives <<"Skip">>
NextToken(text, i) ==
    LET c == text[i] IN
    CASE ParenToken(text, i) # NoToken -> ParenToken(text, i)
      [] c \in NumberChars ->
            LET j == RunEnd(text, i, NumberChars)
                n == ParseNumber(SubSeq(text, i, j))
            IN  <<IF n[1] THEN <<"Number", n[2]>> ELSE <<"Error">>, j + 1>>
      [] c \in LetterChars ->
            LET j == RunEnd(text, i, LetterChars)
            IN  <<<<"Identifier", SubSeq(text, i, j)>>, j + 1>>
      [] c \in SpaceChars -> <<<<"Skip">>, RunEnd(text, i, SpaceChars) + 1>>
      [] c = "+" -> <<<<"Plus">>, i + 1>>
      [] c = "-" -> <<<<"Minus">>, i + 1>>
      [] c = "*" -> <<<<"Asterisk">>, i + 1>>
      [] c = "/" -> <<<<"Slash">>, i + 1>>
      [] c = "^" -> <<<<"Exponent">>, i + 1>>
      [] OTHER -> <<<<"Error">>, i + 1>>

\* Token::lexer(text), collected
RECURSIVE LexFrom(_, _)
LexFrom(text, i) ==
    IF i > Len(text) THEN <<>>
    ELSE LET t == NextToken(text, i)
         IN  IF t[1] = <<"Skip">> THEN LexFrom(text, t[2])
             ELSE <<t[1]>> \o LexFrom(text, t[2])

Lexer(text) == LexFrom(text, 1)

\* the exponent at the level of the product
get_infix_bp_exponent_as_product(tok) ==
    CASE tok[1] \in {"Plus", "Minus"} -> <<1, 2>>
      [] tok[1] \in {"Asterisk", "Slash", "Exponent"} -> <<3, 4>>
      [] OTHER -> <<-1, -1>>

\* the exponent grouping to the left
get_infix_bp_exponent_left(tok) ==
    CASE tok[1] \in {"Plus", "Minus"} -> <<1, 2>>
      [] tok[1] \in {"Asterisk", "Slash"} -> <<3, 4>>
      [] tok[1] = "Exponent" -> <<5, 6>>
      [] OTHER -> <<-1, -1>>

get_infix_bp(tok) ==
    CASE tok[1] \in {"Plus", "Minus"} -> <<1, 2>>
      [] tok[1] \in {"Asterisk", "Slash"} -> <<3, 4>>
      [] tok[1] = "Exponent" -> <<6, 5>>
      [] OTHER -> <<-1, -1>>

get_prefix_bp(tok) == IF tok[1] \in {"Plus", "Minus"} THEN 8 ELSE -1

(***************************************************************************)
(* parser.rs: the parser state is <<"parser", toks, pos, errors>>;         *)
(* current_tok is toks[pos], or Eof once the lexer is exhausted            *)
(***************************************************************************)
BinOpOf(tok) ==
    CASE tok[1] = "Plus" -> "+"
      [] tok[1] = "Minus" -> "-"
      [] tok[1] = "Asterisk" -> "*"
      [] tok[1] = "Slash" -> "/"
      [] tok[1] = "Exponent" -> "^"

\* impl TryFrom<Token> for UnaryOpKind: only Minus converts
UnaryOpOf(tok) == IF tok[1] = "Minus" THEN "-" ELSE "none"

\* impl From<T> for Parser<T>: the first token becomes current_tok, and an
\* empty lexer fails the expect()
ParserFrom(toks) ==
    IF toks = <<>> THEN Panic ELSE <<"parser", toks, 1, <<>>>>

current_tok(ps) == IF ps[3] <= Len(ps[2]) THEN ps[2][ps[3]] ELSE <<"Eof">>
eat_tok(ps) == [ps EXCEPT ![3] = IF ps[3] <= Len(ps[2]) THEN ps[3] + 1 ELSE ps[3]]
errors(ps) == ps[4]

unexpected(ps) == [ps EXCEPT ![4] = Append(ps[4], "unexpected token")]
\* unexpected_expected(expected) pushes format!("unexpected token, expected
\* {}", expected): msg is the formatted message
unexpected_expected(ps, msg) == [ps EXCEPT ![4] = Append(ps[4], msg)]

RECURSIVE parse_expr_bp(_, _)
RECURSIVE infix_loop(_, _, _)

\* parse_atom, parse_expr_bp and its loop return <<expr, parser state>>
\* a missing ) reported, and the expression parsed so far kept
parse_atom_lenient(ps) ==
    LET tok == current_tok(ps)
        ps1 == eat_tok(ps)
    IN  CASE tok[1] = "Number" -> <<Lit(tok[2]), ps1>>
          [] tok[1] = "Identifier" -> <<Id(tok[2]), ps1>>
          [] tok[1] = "OpenParen" ->
                LET r == parse_expr_bp(ps1, 0)
                IN  IF r[1] = Panic THEN r
                    ELSE IF current_tok(r[2])[1] = "CloseParen"
                         THEN <<r[1], eat_tok(r[2])>>
                         ELSE <<r[1], unexpected_expected(eat_tok(r[2]),
                                            "unexpected token, expected a '(' token")>>
          [] OTHER -> <<Err, unexpected_expected(ps1,
                                                 "unexpected token, expected an expression")>>

\* the Error node for an unexpected token without its diagnostic
parse_atom_silent(ps) ==
    LET tok == current_tok(ps)
        ps1 == eat_tok(ps)
    IN  CASE tok[1] = "Number" -> <<Lit(tok[2]), ps1>>
          [] tok[1] = "Identifier" -> <<Id(tok[2]), ps1>>
          [] tok[1] = "OpenParen" ->
                LET r == parse_expr_bp(ps1, 0)
                IN  IF r[1] = Panic THEN r
                    ELSE IF current_tok(r[2])[1] = "CloseParen"
                         THEN <<r[1], eat_tok(r[2])>>
                         ELSE <<Err, unexpected_expected(eat_tok(r[2]),
                                            "unexpected token, expected a '(' token")>>
          [] OTHER -> <<Err, ps1>>

parse_atom(ps) ==
    LET tok == current_tok(ps)
        ps1 == eat_tok(ps)
    IN  CASE tok[1] = "Number" -> <<Lit(tok[2]), ps1>>
          [] tok[1] = "Identifier" -> <<Id(tok[2]), ps1>>
          [] tok[1] = "OpenParen" ->
                LET r == parse_expr_bp(ps1, 0)
                IN  IF r[1] = Panic THEN r
                    ELSE IF current_tok(r[2])[1] = "CloseParen"
                         THEN <<r[1], eat_tok(r[2])>>
                         ELSE <<Err, unexpected_expected(eat_tok(r[2]),
                                            "unexpected token, expected a '(' token")>>
          [] OTHER -> <<Err, unexpected_expected(ps1,
                                                 "unexpected token, expected an expression")>>

infix_loop(ps, left, min_bp) ==
    LET bp == get_infix_bp(current_tok(ps))
    IN  IF bp[1] < min_bp THEN <<left, ps>>
        ELSE LET r == parse_expr_bp(eat_tok(ps), bp[2])
             IN  IF r[1] = Panic THEN r
                 ELSE infix_loop(r[2], Bin(left, BinOpOf(current_tok(ps)), r[1]), min_bp)

\* the prefix operator kept as a Unary node above a literal too
parse_expr_bp_unfolded(ps, min_bp) ==
    LET right_bp == get_prefix_bp(current_tok(ps))
        left == IF right_bp = -1 THEN parse_atom(ps)
                ELSE IF UnaryOpOf(current_tok(ps)) = "none" THEN <<Panic, eat_tok(ps)>>
                ELSE LET r == parse_expr_bp(eat_tok(ps), right_bp)
                     IN  IF r[1] = Panic THEN r
                         ELSE <<Un(UnaryOpOf(current_tok(ps)), r[1]), r[2]>>
    IN  IF left[1] = Panic THEN left ELSE infix_loop(left[2], left[1], min_bp)

parse_expr_bp(ps, min_bp) ==
    LET right_bp == get_prefix_bp(current_tok(ps))
        left == IF right_bp = -1 THEN parse_atom(ps)
                ELSE IF UnaryOpOf(current_tok(ps)) = "none" THEN <<Panic, eat_tok(ps)>>
                ELSE LET r == parse_expr_bp(eat_tok(ps), right_bp)
                     IN  IF r[1] = Panic THEN r
                         ELSE IF r[1][1] = "lit"
                              THEN <<Lit(FMul(r[1][2], F(-1))), r[2]>>
                              ELSE <<Un(UnaryOpOf(current_tok(ps)), r[1]), r[2]>>
    IN  IF left[1] = Panic THEN left ELSE infix_loop(left[2], left[1], min_bp)

\* the Error that unexpected() returns taken as the tree
parse_error_on_trailing(ps) ==
    IF ps = Panic THEN <<Panic, Panic>> ELSE
    LET r == parse_expr_bp(ps, 0)
    IN  IF r[1] = Panic THEN <<Panic, r[2]>>
        ELSE IF current_tok(r[2]) # <<"Eof">>
             THEN <<Err, unexpected(eat_tok(r[2]))>>
             ELSE <<r[1], eat_tok(r[2])>>

\* Parser::parse: the tree and the parser (for errors()) after the call; when
\* the call panics, the parser as the panic left it
parse(ps) ==
    IF ps = Panic THEN <<Panic, Panic>> ELSE
    LET r == parse_expr_bp(ps, 0)
    IN  IF r[1] = Panic THEN <<Panic, r[2]>>
        ELSE IF current_tok(r[2]) # <<"Eof">>
             THEN <<r[1], unexpected(eat_tok(r[2]))>>
             ELSE <<r[1], eat_tok(r[2])>>

(***************************************************************************)
(* parser.rs: impl fmt::Display for Expr                                   *)
(***************************************************************************)
\* the decimal digits of a natural number
RECURSIVE NatText(_)
NatText(n) ==
    IF n < 10 THEN <<Digits[n + 1]>>
    ELSE NatText(n \div 10) \o <<Digits[(n % 10) + 1]>>

MaxFracDigits == 16

\* the digits of rem/den after the decimal point, at most k of them
RECURSIVE FracText(_, _, _)
FracText(rem, den, k) ==
    IF rem = 0 \/ k = 0 THEN <<>>
    ELSE <<Digits[((rem * 10) \div den) + 1]>> \o FracText((rem * 10) % den, den, k - 1)

\* {} of the absolute value of a finite f64
AbsText(f) ==
    LET n == Abs(Num(f))
        d == Den(f)
    IN  IF n % d = 0 THEN NatText(n \div d)
        ELSE NatText(n \div d) \o <<".">> \o FracText(n % d, d, MaxFracDigits)

\* {} of an f64
F64Text(f) ==
    CASE IsNaN(f) -> <<"N", "a", "N">>
      [] f = PosInf -> <<"i", "n", "f">>
      [] f = NegInf -> <<"-", "i", "n", "f">>
      [] OTHER -> (IF SignNeg(f) THEN <<"-">> ELSE <<>>) \o AbsText(f)

\* Display with the parentheses of a Binary node forgotten
RECURSIVE Display_NoParens(_)
Display_NoParens(e) ==
    CASE e[1] = "lit" ->
            IF FGeZero(e[2]) THEN F64Text(e[2])
            ELSE <<"(">> \o F64Text(e[2]) \o <<")">>
      [] e[1] = "id" -> e[2]
      [] e[1] = "bin" ->
            Display_NoParens(e[3]) \o <<" ", e[2], " ">> \o Display_NoParens(e[4])
      [] e[1] = "un" -> <<"(", e[2]>> \o Display_NoParens(e[3]) \o <<")">>
      [] OTHER -> <<"e", "r", "r">>

RECURSIVE Display(_)
Display(e) ==
    CASE e[1] = "lit" ->
            IF FGeZero(e[2]) THEN F64Text(e[2])
            ELSE <<"(">> \o F64Text(e[2]) \o <<")">>
      [] e[1] = "id" -> e[2]
      [] e[1] = "bin" ->
            <<"(">> \o Display(e[3]) \o <<" ", e[2], " ">> \o Display(e[4]) \o <<")">>
      [] e[1] = "un" -> <<"(", e[2]>> \o Display(e[3]) \o <<")">>
      [] OTHER -> <<"e", "r", "r">>

(***************************************************************************)
(* State.  add_item (app.rs) owns input, pc, items, parser, ast, ast2 and  *)
(* deriv; the round trip through Display adds shown and reparsed.  The     *)
(* transformations are exercised on their own through tree, hist, vals and *)
(* caps, and the rule matcher through rule_pat, subject, matched, written, *)
(* with pattern the text a rule is constructed from.                       *)
(***************************************************************************)
VARIABLES input, debug_mode, pc, items, parser, ast, ast2, deriv,
          shown, reparsed,
          tree, hist, vals, caps,
          pattern_str, rule_pat, subject, matched, written

appVars == <<input, debug_mode, pc, items, parser, ast, ast2, deriv>>
tripVars == <<shown, reparsed>>
treeVars == <<tree, hist, vals, caps>>
ruleVars == <<pattern_str, rule_pat, subject, matched, written>>
vars == <<appVars, tripVars, treeVars, ruleVars>>

Unset == <<"unset">>

\* app(): the signals as they are created, and no add_item call yet
AppIdle ==
    /\ input = <<>> /\ debug_mode = FALSE /\ pc = "idle" /\ items = <<>>
    /\ parser = Unset /\ ast = Unset /\ ast2 = Unset /\ deriv = Unset
TripIdle == shown = Unset /\ reparsed = Unset
TreeIdle == tree = Unset /\ hist = <<>> /\ vals = <<>> /\ caps = <<>>
RuleIdle == pattern_str = Unset /\ rule_pat = Unset /\ subject = Unset
            /\ matched = Unset /\ written = Unset

(***************************************************************************)
(* The trees the transformations are run on: every tree of depth at most   *)
(* one over Leaves, and the trees built from x by at most MaxGrow wrappings*)
(***************************************************************************)
MaxLit == 2
MaxGrow == 4

Y == <<"y">>
Literals == {Num0(n) : n \in -1..MaxLit}
Leaves == Literals \cup {Id(X), Id(Y), Err}
BinOps == {"+", "-", "*", "/", "^"}
Depth1 ==
    Leaves \cup {Un("-", a) : a \in Leaves}
           \cup {Bin(a, op, b) : a \in Leaves, op \in BinOps, b \in Leaves}

Wrappings(e) ==
    {Bin(Num0(-1), "*", e), Bin(e, "+", Id(X)), Bin(Num0(2), "/", e)}

RECURSIVE Grown(_)
Grown(k) ==
    IF k = 0 THEN {Id(X)}
    ELSE LET p == Grown(k - 1) IN p \cup UNION {Wrappings(e) : e \in p}

\* trees of depth two on which a rewrite at the root leaves a tree that a
\* rule matches again
Nested ==
    { Bin(Bin(Id(Y), "*", Num0(1)), "*", Num0(1)),
      Bin(Bin(Id(X), "+", Num0(0)), "*", Num0(1)),
      Bin(Bin(Id(X), "^", Num0(-1)), "^", Num0(-1)),
      Bin(Id(X), "^", Lit(<<-1, 2>>)),
      Bin(Id(X), "^", Lit(NegZero)),
      Bin(Id(X), "^", Lit(NaN)),
      Bin(Num0(2), "*", Bin(Id(Y), "^", Num0(-2))) }

\* trees with the literal 0.5; a power of a literal to 0.5 is left out, its
\* value is not a ratio of integers
Half == Lit(<<1, 2>>)
HalfTrees ==
    {Half, Un("-", Half)}
        \cup {Bin(Half, op, b) : op \in BinOps, b \in Literals \cup {Id(X)}}
        \cup {Bin(a, op, Half) : a \in {Id(X), Id(Y)}, op \in BinOps}
        \cup {Bin(a, op, Half) : a \in Literals \cup {Half}, op \in BinOps \ {"^"}}
        \cup { Bin(Bin(Id(X), "*", Half), "+", Half),
               Bin(Id(X), "^", Bin(Half, "*", Id(Y))),
               Bin(Num0(1), "/", Bin(Id(X), "+", Half)) }

Trees == Depth1 \cup Grown(MaxGrow) \cup Nested \cup HalfTrees

\* the rule sets apply_rules is run with on its own: the two shipped ones,
\* a rewrite followed by a handler that vetoes ("_1 * 1" -> "_1", then the
\* identifier handler of derivative.rs on "_1"), a set that adds one to a
\* literal in every pass ("_lit1" -> "_lit1 + 1", then the fold of
\* "_lit1 + _lit2") and two rewrites in a row ("_1 * 1" -> "_1",
\* "_1 + 0" -> "_1")
VETO_AFTER_REWRITE ==
    new_from_str(<< <<<<"_", "1", " ", "*", " ", "1">>, <<"_", "1">>>> >>,
                 << <<<<"_", "1">>, "d_identifier">> >>)
ONE_MORE_EACH_PASS ==
    new_from_str(<< <<<<"_", "l", "i", "t", "1">>,
                      <<"_", "l", "i", "t", "1", " ", "+", " ", "1">>>> >>,
                 << <<<<"_", "l", "i", "t", "1", " ", "+", " ", "_", "l", "i", "t", "2">>,
                      "fold_plus">> >>)
TWO_REWRITES ==
    new_from_str(<< <<<<"_", "1", " ", "*", " ", "1">>, <<"_", "1">>>>,
                    <<<<"_", "1", " ", "+", " ", "0">>, <<"_", "1">>>> >>,
                 <<>>)
RuleSets ==
    <<SIMPLIFY_TRANSFORMS, PRETTIFY_TRANSFORMS, VETO_AFTER_REWRITE,
      ONE_MORE_EACH_PASS, TWO_REWRITES>>
\* the names of apply_rules and of one pass of its loop with RuleSets[k]
RunOf == <<"R1", "R2", "R3", "R4", "R5">>
PassOf == <<"P1", "P2", "P3", "P4", "P5">>

\* the sequences of transformations applied to one tree: Simplify twice,
\* the input pipeline of add_item and its repetition, Prettify alone, and
\* the derivative and its Simplify
Plans ==
    { <<"S", "S">>,
      <<"S", "Y", "S", "Y", "S">>,
      <<"Y">>, <<"D", "S">> }
        \cup {<<RunOf[k]>> : k \in DOMAIN RunOf}
        \cup {<<PassOf[k]>> : k \in DOMAIN PassOf}
IsPrefix(s, t) == Len(s) <= Len(t) /\ SubSeq(t, 1, Len(s)) = s
Planned(h) == \E p \in Plans : IsPrefix(h, p)

Cur == IF vals = <<>> THEN tree ELSE vals[Len(vals)]

TreeInit == tree \in Trees /\ hist = <<>> /\ vals = <<>> /\ caps = <<>>
            /\ AppIdle /\ TripIdle /\ RuleIdle

\* Simplify.visit(&mut expr)
ApplySimplify ==
    /\ Planned(Append(hist, "S")) /\ Cur # Panic
    /\ \E r \in {visit(SIMPLIFY_TRANSFORMS, Cur)} :
            vals' = Append(vals, r[1]) /\ caps' = Append(caps, r[2])
    /\ hist' = Append(hist, "S")
    /\ UNCHANGED <<tree, appVars, tripVars, ruleVars>>

\* Prettify.visit(&mut expr)
ApplyPrettify ==
    /\ Planned(Append(hist, "Y")) /\ Cur # Panic
    /\ \E r \in {visit(PRETTIFY_TRANSFORMS, Cur)} :
            vals' = Append(vals, r[1]) /\ caps' = Append(caps, r[2])
    /\ hist' = Append(hist, "Y")
    /\ UNCHANGED <<tree, appVars, tripVars, ruleVars>>

\* derivative(&mut expr)
ApplyDerivative ==
    /\ Planned(Append(hist, "D")) /\ Cur # Panic
    /\ vals' = Append(vals, derivative(Cur)) /\ caps' = Append(caps, FALSE)
    /\ hist' = Append(hist, "D")
    /\ UNCHANGED <<tree, appVars, tripVars, ruleVars>>

\* rules.apply_rules(&expr) with one of RuleSets
ApplyRules ==
    /\ Cur # Panic
    /\ \E k \in DOMAIN RuleSets :
          /\ Planned(Append(hist, RunOf[k]))
          /\ \E r \in {apply_rules(RuleSets[k], Cur)} :
                vals' = Append(vals, r[1]) /\ caps' = Append(caps, r[2] = "capped")
          /\ hist' = Append(hist, RunOf[k])
    /\ UNCHANGED <<tree, appVars, tripVars, ruleVars>>

\* apply_rules, the for loop over the rules once, with one of RuleSets
ApplyPass ==
    /\ Cur # Panic
    /\ \E k \in DOMAIN RuleSets :
          /\ Planned(Append(hist, PassOf[k]))
          /\ vals' = Append(vals, apply_pass(RuleSets[k], 1, <<Cur, FALSE>>)[1])
          /\ caps' = Append(caps, FALSE)
          /\ hist' = Append(hist, PassOf[k])
    /\ UNCHANGED <<tree, appVars, tripVars, ruleVars>>

TreeNext ==
    ApplySimplify \/ ApplyPrettify \/ ApplyDerivative \/ ApplyRules \/ ApplyPass
SpecTree == TreeInit /\ [][TreeNext]_vars

(***************************************************************************)
(* app.rs.  The model follows the app from its construction through the    *)
(* first call of add_item: add_item reads nothing of items and only        *)
(* appends to it, so a later call runs as the first does, after the items  *)
(* already shown.  The handler runs to its end without interleaving; pc is *)
(* its position.                                                           *)
(***************************************************************************)
MaxLen == 3

Alphabet == {"1", "x", "+", "-", "(", ")", " "}
Typed == UNION {[1..n -> Alphabet] : n \in 0..MaxLen}
\* longer lines: the examples of the documentation and one line for each
\* kind of token and of parse error
Examples ==
    { <<"2", " ", "*", " ", "x", " ", "^", " ", "2">>,
      <<"x", " ", "+", " ", "x">>,
      <<"1", " ", "/", " ", "x">>,
      <<"1", " ", "$", " ", "2">>,
      <<"5">>,
      <<"(", "1">>,
      <<"+", "1">>,
      <<"1", " ", "2">>,
      <<"x", " ", "-", " ", "y">>,
      <<"1", " ", "*", "*", " ", "2">>,
      <<"0", ".", "5">>,
      <<"1", " ", "-", " ", "(", "x", " ", "+", " ", "1", ")">> }
Lines == Typed \cup Examples
Chars == Alphabet \cup UNION {{e[i] : i \in 1..Len(e)} : e \in Examples}

Item(kind, text) == <<kind, text>>
NO_INPUT == "no input found, skipping"

\* the debug lines add_item pushes when debug_mode is on (the elapsed time
\* that follows the label is left out)
DebugItems(label) == IF debug_mode THEN <<Item("DebugMsg", label)>> ELSE <<>>

\* the check on the text instead of on its tokens
NoInput_EmptyText(text) == text = <<>>

\* tokens2.next().is_none()
NoInput(text) == Lexer(text) = <<>>

AppInit == AppIdle /\ TripIdle /\ TreeIdle /\ RuleIdle

\* the texts that grow into a line of Lines
Typable(text) ==
    \/ Len(text) <= MaxLen /\ \A i \in 1..Len(text) : text[i] \in Alphabet
    \/ \E e \in Examples : IsPrefix(text, e)

\* bind:value=input, on typing one more character
TypeInput ==
    /\ pc = "idle"
    /\ \E c \in Chars : Typable(Append(input, c)) /\ input' = Append(input, c)
    /\ UNCHANGED <<debug_mode, pc, items, parser, ast, ast2, deriv>>
    /\ UNCHANGED <<tripVars, treeVars, ruleVars>>

\* on:click of the debug-mode toggle
ToggleDebug ==
    /\ pc = "idle"
    /\ debug_mode' = ~debug_mode
    /\ UNCHANGED <<input, pc, items, parser, ast, ast2, deriv>>
    /\ UNCHANGED <<tripVars, treeVars, ruleVars>>

\* keyup with Enter: add_item starts and pushes the Input item
KeyupEnter ==
    /\ pc = "idle"
    /\ items' = Append(items, Item("Input", input))
    /\ pc' = "lex"
    /\ UNCHANGED <<input, debug_mode, parser, ast, ast2, deriv>>
    /\ UNCHANGED <<tripVars, treeVars, ruleVars>>

\* add_item, empty token stream: the error item and the early return; the
\* keyup handler then resets the input
EmptyInput ==
    /\ pc = "lex" /\ NoInput(input)
    /\ items' = Append(items, Item("Error", NO_INPUT))
    /\ input' = <<>>
    /\ pc' = "done"
    /\ UNCHANGED <<debug_mode, parser, ast, ast2, deriv>>
    /\ UNCHANGED <<tripVars, treeVars, ruleVars>>

\* add_item: Parser::from(&mut tokens) and parser.parse()
ParseInput ==
    /\ pc = "lex" /\ ~NoInput(input)
    /\ \E r \in {parse(ParserFrom(Lexer(input)))} :
           /\ ast' = r[1]
           /\ parser' = r[2]
           /\ pc' = IF r[1] = Panic THEN "panicked" ELSE "errors"
           /\ items' = IF r[1] = Panic THEN items
                       ELSE items \o DebugItems("Parsed input")
    /\ UNCHANGED <<input, debug_mode, ast2, deriv>>
    /\ UNCHANGED <<tripVars, treeVars, ruleVars>>

\* add_item: one Error item for each of parser.errors()
ReportErrors ==
    /\ pc = "errors"
    /\ items' = items \o [i \in 1..Len(errors(parser)) |->
                                Item("Error", errors(parser)[i])]
    /\ pc' = "simplify"
    /\ UNCHANGED <<input, debug_mode, parser, ast, ast2, deriv>>
    /\ UNCHANGED <<tripVars, treeVars, ruleVars>>

\* add_item: Simplify.visit(&mut ast)
SimplifyInput ==
    /\ pc = "simplify"
    /\ ast' = Simplify(ast)
    /\ items' = items \o DebugItems("Simplify input")
    /\ pc' = "prettify"
    /\ UNCHANGED <<input, debug_mode, parser, ast2, deriv>>
    /\ UNCHANGED <<tripVars, treeVars, ruleVars>>

\* add_item: ast2 is a clone of ast, prettified and simplified again, and
\* shown as the ParsedAs item
PrettifyInput ==
    /\ pc = "prettify"
    /\ \E s \in {Simplify(Prettify(ast))} :
           /\ ast2' = s
           /\ items' = items \o DebugItems("Prettify input")
                             \o <<Item("ParsedAs", Display(s))>>
    /\ pc' = "derive"
    /\ UNCHANGED <<input, debug_mode, parser, ast, deriv>>
    /\ UNCHANGED <<tripVars, treeVars, ruleVars>>

\* add_item: derivative(&mut ast)
ComputeDerivative ==
    /\ pc = "derive"
    /\ deriv' = derivative(ast)
    /\ items' = items \o DebugItems("Compute derivative")
    /\ pc' = "simplify_derivative"
    /\ UNCHANGED <<input, debug_mode, parser, ast, ast2>>
    /\ UNCHANGED <<tripVars, treeVars, ruleVars>>

\* the derivative shown as the rules wrote it, without the three visits
SimplifyDerivative_Unsimplified ==
    /\ pc = "simplify_derivative"
    /\ deriv' = deriv
    /\ items' = items \o DebugItems("Simplify and prettify derivative")
                      \o <<Item("Derivative", Display(deriv))>>
                      \o DebugItems("Total time elapsed")
    /\ input' = <<>>
    /\ pc' = "done"
    /\ UNCHANGED <<debug_mode, parser, ast, ast2>>
    /\ UNCHANGED <<tripVars, treeVars, ruleVars>>

\* add_item: the derivative is simplified, prettified and simplified, and
\* shown as the Derivative item; add_item returns and the keyup handler
\* resets the input
SimplifyDerivative ==
    /\ pc = "simplify_derivative"
    /\ \E s2 \in {Simplify(Prettify(Simplify(deriv)))} :
           /\ deriv' = s2
           /\ items' = items \o DebugItems("Simplify and prettify derivative")
                             \o <<Item("Derivative", Display(s2))>>
                             \o DebugItems("Total time elapsed")
    /\ input' = <<>>
    /\ pc' = "done"
    /\ UNCHANGED <<debug_mode, parser, ast, ast2>>
    /\ UNCHANGED <<tripVars, treeVars, ruleVars>>

AppNext ==
    \/ TypeInput \/ ToggleDebug \/ KeyupEnter \/ EmptyInput \/ ParseInput
    \/ ReportErrors \/ SimplifyInput \/ PrettifyInput \/ ComputeDerivative
    \/ SimplifyDerivative
Spec == AppInit /\ [][AppNext]_vars

(***************************************************************************)
(* The round trip of a parsed tree through Display and the parser          *)
(***************************************************************************)
\* lines a op b op c and - a op b over two atoms and the five operators,
\* and the two lines of the documentation of the binding powers
Atoms == {"1", "x"}
Operators == {"+", "-", "*", "/", "^"}
InfixLines ==
    {<<a, o1, b, o2, c>> : a \in Atoms, o1 \in Operators, b \in Atoms,
                          o2 \in Operators, c \in Atoms}
PrefixLines == {<<"-", a, o, b>> : a \in Atoms, o \in Operators, b \in Atoms}
GroupingLines ==
    InfixLines \cup PrefixLines
        \cup { <<"1", " ", "+", " ", "2", " ", "-", " ", "3">>,
               <<"a", " ", "^", " ", "b", " ", "^", " ", "c">> }

\* lines with parentheses: the unmatched ones of the tests of parser.rs,
\* and a prefix minus on a literal in parentheses
ParenLines ==
    { <<"(", "1", " ", "+", " ", "2">>,
      <<"1", " ", "+", " ", "2", ")">>,
      <<"(", "1", " ", "x", " ", "+", " ", "1">>,
      <<"(", "x", ")", " ", "1">>,
      <<"-", "(", "1", ")">> }

TripInit ==
    /\ input \in Lines \cup GroupingLines \cup ParenLines /\ debug_mode = FALSE /\ pc = "trip" /\ items = <<>>
    /\ parser = Unset /\ ast = Unset /\ ast2 = Unset /\ deriv = Unset
    /\ TripIdle /\ TreeIdle /\ RuleIdle

\* Parser::from(Token::lexer(input)).parse()
TripParse ==
    /\ pc = "trip" /\ ast = Unset /\ ~NoInput(input)
    /\ \E r \in {parse(ParserFrom(Lexer(input)))} :
            ast' = r[1] /\ parser' = r[2]
    /\ UNCHANGED <<input, debug_mode, pc, items, ast2, deriv>>
    /\ UNCHANGED <<tripVars, treeVars, ruleVars>>

\* format!("{}", ast)
TripDisplay ==
    /\ pc = "trip" /\ ast \notin {Unset, Panic} /\ shown = Unset
    /\ shown' = Display(ast)
    /\ UNCHANGED <<reparsed, appVars, treeVars, ruleVars>>

\* Parser::from(Token::lexer(&shown)).parse()
TripReparse ==
    /\ pc = "trip" /\ shown # Unset /\ reparsed = Unset
    /\ reparsed' = parse(ParserFrom(Lexer(shown)))[1]
    /\ UNCHANGED <<shown, appVars, treeVars, ruleVars>>

TripNext == TripParse \/ TripDisplay \/ TripReparse
SpecTrip == TripInit /\ [][TripNext]_vars

(***************************************************************************)
(* Matching a pattern on an expression and writing the pattern back        *)
(***************************************************************************)
MaxRuleId == 2

RuleIds == 1..MaxRuleId
PatternLeaves ==
    {Num0(0), Num0(1), Err}
        \cup {AnySubExpr(i) : i \in RuleIds}
        \cup {AnyLiteral(i) : i \in RuleIds}
        \cup {AnyNonLiteral(i) : i \in RuleIds}
PatternUnary == {Un(op, a) : op \in {"-", "+"}, a \in PatternLeaves}
Patterns ==
    PatternLeaves \cup PatternUnary
        \cup {Bin(a, op, b) : a \in PatternLeaves, op \in {"+", "*"}, b \in PatternLeaves}
        \cup {Bin(u, "+", b) : u \in PatternUnary, b \in PatternLeaves}

SubjectLeaves == {Num0(1), Num0(-1), Lit(NegZero), Lit(NaN), Id(X), Err}
SubjectUnary == {Un(op, a) : op \in {"-", "+"}, a \in SubjectLeaves}
Subjects ==
    SubjectLeaves \cup SubjectUnary
        \cup {Bin(a, op, b) : a \in SubjectLeaves, op \in {"+", "*"}, b \in SubjectLeaves}
        \cup {Bin(u, "+", b) : u \in SubjectUnary, b \in SubjectLeaves}

RuleInit ==
    /\ rule_pat \in Patterns /\ subject \in Subjects
    /\ pattern_str = Unset /\ matched = Unset /\ written = Unset
    /\ AppIdle /\ TripIdle /\ TreeIdle

\* rule.match_expr(&expr)
MatchExpr ==
    /\ rule_pat # Unset /\ rule_pat # Panic /\ matched = Unset
    /\ \E res \in {match_expr(rule_pat, subject)} :
            matched' = <<"MatchResult", res.matches, res.matched_exprs>>
    /\ UNCHANGED <<pattern_str, rule_pat, subject, written, appVars, tripVars, treeVars>>

\* rule.write_expr(&res.matched_exprs), after a successful match
WriteExpr ==
    /\ matched # Unset /\ matched[2] /\ written = Unset
    /\ written' = write_expr(rule_pat, matched[3])
    /\ UNCHANGED <<pattern_str, rule_pat, subject, matched, appVars, tripVars, treeVars>>

RuleNext == MatchExpr \/ WriteExpr
SpecRule == RuleInit /\ [][RuleNext]_vars

(***************************************************************************)
(* Constructing a rule from its text: every text of at most MaxRuleLen     *)
(* characters of RuleAlphabet, then the rule matched on a subject and      *)
(* written back                                                            *)
(***************************************************************************)
MaxRuleLen == 3

RuleAlphabet == {"_", "1", "+", "(", ")", " "}
RuleTexts == UNION {[1..n -> RuleAlphabet] : n \in 0..MaxRuleLen}
AuthorSubjects == {Num0(1), Id(X), Bin(Id(X), "+", Num0(1))}

AuthorInit ==
    /\ pattern_str \in RuleTexts /\ subject \in AuthorSubjects
    /\ rule_pat = Unset /\ matched = Unset /\ written = Unset
    /\ AppIdle /\ TripIdle /\ TreeIdle

\* RuleExpr::new_rule_from_str(pattern_str)
NewRuleFromStr ==
    /\ rule_pat = Unset
    /\ rule_pat' = new_rule_from_str(pattern_str)
    /\ UNCHANGED <<pattern_str, subject, matched, written, appVars, tripVars, treeVars>>

AuthorNext == NewRuleFromStr \/ MatchExpr \/ WriteExpr
SpecAuthor == AuthorInit /\ [][AuthorNext]_vars

(***************************************************************************)
(* Properties of the transformations (SpecTree)                            *)
(***************************************************************************)
\* C1: running Simplify twice gives the same tree as running it once,
\* Simplify(Simplify(e)) = Simplify(e)
C1_SimplifyIdempotent ==
    hist = <<"S", "S">> => Same(vals[2], vals[1])

\* C2: no apply_rules call made by the Simplify or Prettify visitor reaches
\* the MAX_ITERATIONS_PER_APPLY cap (every tree here has fewer than 1000 nodes)
C2_CapNeverReached ==
    \A i \in 1..Len(hist) : hist[i] \in {"S", "Y"} => ~caps[i]

\* C3: the derivative of the identifier x is the literal 1 and the
\* derivative of every other identifier is the literal 0
C3_IdentifierDerivative ==
    (hist = <<"D">> /\ tree[1] = "id") =>
        Same(vals[1], IF tree[2] = X THEN Num0(1) ELSE Num0(0))

\* C4: the derivative of every literal is the literal 0, because the literal
\* rule is the first rule of the derivative rule set
C4_LiteralDerivative ==
    /\ DERIVATIVE_TRANSFORMS[1].pattern = AnyLiteral(1)
    /\ DERIVATIVE_TRANSFORMS[1].out = OutPattern(Num0(0))
    /\ (hist = <<"D">> /\ tree[1] = "lit") => vals[1] = Num0(0)

C4_Witness ==
    hist = <<"D">> /\ tree = Num0(2) /\ vals[1] = Num0(0)

\* C7: repeating the prettify-then-simplify step on the output of the input
\* pipeline changes nothing, S(Y(S(Y(S(e))))) = S(Y(S(e)))
C7_PrettifySimplifyIdempotent ==
    hist = <<"S", "Y", "S", "Y", "S">> => Same(vals[5], vals[3])

\* C8: after Simplify the tree contains no Binary node with operator Minus
C8_NoBinaryMinus ==
    (Len(hist) >= 1 /\ hist[1] = "S") => ~HasMinus(vals[1])

\* C9: Simplify and Prettify keep every Error node: a tree that contains an
\* Error node still contains one after the visitor ran
C9_ErrorKept ==
    (Len(hist) >= 1 /\ hist[1] \in {"S", "Y"} /\ HasErr(tree)) => HasErr(vals[1])

(***************************************************************************)
(* Properties of the parser round trip (SpecTrip)                          *)
(***************************************************************************)
\* C5 as stated: for every tree the parser returns, formatting it with
\* Display and parsing the text again gives a structurally equal tree
C5_RoundTrip ==
    reparsed # Unset => Same(reparsed, ast)

\* C5 amended: the round trip gives a structurally equal tree for every
\* tree the parser returns that has no Error node (and only finite literals)
C5_RoundTripNoError ==
    (reparsed # Unset /\ ~HasErr(ast)) => Same(reparsed, ast)

C5_Witness ==
    /\ input = <<"1", " ", "-", " ", "(", "x", " ", "+", " ", "1", ")">>
    /\ ast = Bin(Num0(1), "-", Bin(Id(X), "+", Num0(1)))
    /\ shown = <<"(", "1", " ", "-", " ", "(", "x", " ", "+", " ", "1", ")", ")">>
    /\ reparsed = ast

(***************************************************************************)
(* Properties of the rule matcher (SpecRule)                               *)
(***************************************************************************)
\* a unary plus, or a unary minus right above a literal or a literal
\* wildcard, somewhere in the pattern: the shapes write_expr folds away
RECURSIVE Folds(_)
Folds(p) ==
    CASE p[1] = "bin" -> Folds(p[3]) \/ Folds(p[4])
      [] p[1] = "un" -> p[2] = "+" \/ p[3][1] \in {"lit", "anylit"} \/ Folds(p[3])
      [] OTHER -> FALSE

\* C6 as stated: when match_expr(P, E) succeeds with bindings B,
\* write_expr(P, B) is structurally equal to E
C6_MatchWriteInverse ==
    written # Unset => (written # Panic /\ Same(written, subject))

\* C6 amended: when match_expr(P, E) succeeds with bindings B and P has no
\* unary plus and no unary minus right above a literal or a literal
\* wildcard, write_expr(P, B) is structurally equal to E
C6_MatchWriteInverseNoFold ==
    (written # Unset /\ ~Folds(rule_pat)) =>
        (written # Panic /\ Same(written, subject))

C6_Witness ==
    /\ rule_pat = Bin(Un("-", AnySubExpr(1)), "+", AnySubExpr(1))
    /\ subject = Bin(Un("-", Id(X)), "+", Id(X))
    /\ written = subject

(***************************************************************************)
(* Properties of add_item (Spec)                                           *)
(***************************************************************************)
\* C10: when the token stream of the input is empty, add_item reports
\* exactly the one error "no input found, skipping", never constructs or
\* runs the parser, and pushes no ParsedAs and no Derivative item
C10_EmptyInput ==
    (pc # "idle" /\ Lexer(items[1][2]) = <<>>) =>
        /\ pc \in {"lex", "done"}
        /\ parser = Unset /\ ast = Unset /\ ast2 = Unset /\ deriv = Unset
        /\ pc = "done" => items = <<Item("Input", items[1][2]), Item("Error", NO_INPUT)>>
        /\ pc = "lex" => items = <<Item("Input", items[1][2])>>

C10_Witness ==
    /\ pc = "done" /\ debug_mode
    /\ items = <<Item("Input", <<" ", " ">>), Item("Error", NO_INPUT)>>

\* the items add_item shows when debug mode is off
C11_Shown == SelectSeq(items, LAMBDA it : it[1] # "DebugMsg")

C11_Diagnostics == [i \in 1..Len(errors(parser)) |-> Item("Error", errors(parser)[i])]

\* C11: whenever the parse of a non-empty input recorded diagnostics,
\* add_item does not abort, reports every diagnostic and then shows exactly
\* one ParsedAs and one Derivative item; for 1 $ 2 these are the error
\* "unexpected token", parsed-as 1 and derivative 0
C11_ParseErrorsNonFatal ==
    (parser # Unset /\ errors(parser) # <<>>) =>
        /\ pc # "panicked"
        /\ pc = "done" =>
              /\ ast2 # Panic /\ deriv # Panic
              /\ C11_Shown = <<items[1]>> \o C11_Diagnostics
                                \o <<Item("ParsedAs", Display(ast2)),
                                     Item("Derivative", Display(deriv))>>
        /\ (pc = "done" /\ items[1][2] = <<"1", " ", "$", " ", "2">>) =>
              C11_Shown = <<items[1], Item("Error", "unexpected token"),
                            Item("ParsedAs", <<"1">>), Item("Derivative", <<"0">>)>>

\* the same, for the calls in which the parser does not panic
C11_NonFatalWithoutPanic ==
    (parser # Unset /\ errors(parser) # <<>> /\ ast # Panic) => C11_ParseErrorsNonFatal

\* C12: for the input 2 * x ^ 2 add_item shows parsed-as (2 * (x ^ 2)) and
\* derivative (4 * x)
C12_PowerExample ==
    (pc = "done" /\ items[1][2] = <<"2", " ", "*", " ", "x", " ", "^", " ", "2">>) =>
        C11_Shown = <<items[1],
                      Item("ParsedAs", <<"(", "2", " ", "*", " ", "(", "x", " ", "^", " ", "2", ")", ")">>),
                      Item("Derivative", <<"(", "4", " ", "*", " ", "x", ")">>)>>

C12_Witness ==
    /\ pc = "done" /\ ~debug_mode
    /\ items[1] = Item("Input", <<"2", " ", "*", " ", "x", " ", "^", " ", "2">>)
    /\ Len(items) = 3 /\ items[2][1] = "ParsedAs" /\ items[3][1] = "Derivative"

\* C13: for the input 1 / x add_item shows parsed-as (1 / x) and derivative
\* ((-1) / (x ^ 2))
C13_QuotientExample ==
    (pc = "done" /\ items[1][2] = <<"1", " ", "/", " ", "x">>) =>
        C11_Shown = <<items[1],
                      Item("ParsedAs", <<"(", "1", " ", "/", " ", "x", ")">>),
                      Item("Derivative", <<"(", "(", "-", "1", ")", " ", "/", " ", "(", "x", " ", "^", " ", "2", ")", ")">>)>>

C13_Witness ==
    /\ pc = "done" /\ ~debug_mode
    /\ items[1] = Item("Input", <<"1", " ", "/", " ", "x">>)
    /\ Len(items) = 3 /\ items[2][1] = "ParsedAs" /\ items[3][1] = "Derivative"

(***************************************************************************)
(* Properties of the parser (SpecTrip)                                     *)
(***************************************************************************)
\* the levels of the binding-power table: + - below * / below ^
C14_Level(o) == CASE o \in {"+", "-"} -> 1 [] o \in {"*", "/"} -> 2 [] o = "^" -> 3
C14_GroupsLeft(o1, o2) ==
    C14_Level(o1) > C14_Level(o2) \/ (C14_Level(o1) = C14_Level(o2) /\ o1 # "^")
C14_Atom(c) == IF c = "1" THEN Num0(1) ELSE Id(<<c>>)
C14_Negated(c) == IF c = "1" THEN Num0(-1) ELSE Un("-", Id(<<c>>))

RECURSIVE C15_UnaryOverLiteral(_)
C15_UnaryOverLiteral(e) ==
    CASE e[1] = "bin" -> C15_UnaryOverLiteral(e[3]) \/ C15_UnaryOverLiteral(e[4])
      [] e[1] = "un" -> e[3][1] = "lit" \/ C15_UnaryOverLiteral(e[3])
      [] OTHER -> FALSE

\* the operand of the prefix minus that starts the line, parsed with the
\* binding power of the prefix
C15_Operand == parse_expr_bp(ParserFrom(Lexer(Tail(input))), get_prefix_bp(<<"Minus">>))

\* C15: a prefix minus on an operand that parsed to a literal gives one
\* Literal, the operand negated, and on any other operand a Unary minus over
\* the operand; no tree of the parser has a Unary node right above a Literal
C15_PrefixMinusFolds ==
    /\ ast \notin {Unset, Panic} => ~C15_UnaryOverLiteral(ast)
    /\ ( /\ ast \notin {Unset, Panic}
         /\ input # <<>> /\ input[1] = "-" /\ Lexer(Tail(input)) # <<>>
         /\ C15_Operand[1] # Panic /\ current_tok(C15_Operand[2]) = <<"Eof">> ) =>
            ast = IF C15_Operand[1][1] = "lit"
                  THEN Lit(FNeg(C15_Operand[1][2]))
                  ELSE Un("-", C15_Operand[1])

C15_Witness ==
    /\ input = <<"-", "1">> /\ ast = Num0(-1) /\ errors(parser) = <<>>

\* C16: a prefix plus is absorbed: the parse of + e gives the tree and the
\* diagnostics of the parse of e and does not abort, and the rule-pattern
\* parser reads + e as it reads e
C16_PrefixPlusAbsorbed ==
    /\ (ast # Unset /\ input # <<>> /\ input[1] = "+" /\ Lexer(Tail(input)) # <<>>) =>
          /\ ast # Panic
          /\ ast = parse(ParserFrom(Lexer(Tail(input))))[1]
          /\ errors(parser) = errors(parse(ParserFrom(Lexer(Tail(input))))[2])
    /\ (ast # Unset /\ input # <<>> /\ input[1] = "+" /\ RuleLexer(Tail(input)) # <<>>) =>
          new_rule_from_str(input) = new_rule_from_str(Tail(input))

\* the rule-pattern parser alone
C16_RulePrefixPlusAbsorbed ==
    (ast # Unset /\ input # <<>> /\ input[1] = "+" /\ RuleLexer(Tail(input)) # <<>>) =>
          new_rule_from_str(input) = new_rule_from_str(Tail(input))

\* the leaf at the left end of a tree
RECURSIVE C17_Leftmost(_)
C17_Leftmost(e) == IF e[1] = "bin" THEN C17_Leftmost(e[3]) ELSE e

\* the expression after the ( that starts the line
C17_Inner == parse_expr_bp(eat_tok(ParserFrom(Lexer(input))), 0)

\* C17: when the expression after a ( is not followed by a ), the parser
\* records "unexpected token, expected a '(' token" after the diagnostics of
\* that expression, and the parenthesised sub-expression is Error, whatever
\* was parsed in it; (1 + 2 parses to Error with that one diagnostic
C17_UnmatchedParen ==
    /\ ( /\ ast # Unset /\ Lexer(input) # <<>> /\ Lexer(input)[1] = <<"OpenParen">>
         /\ C17_Inner[1] # Panic /\ current_tok(C17_Inner[2]) # <<"CloseParen">> ) =>
            /\ Len(errors(parser)) > Len(errors(C17_Inner[2]))
            /\ SubSeq(errors(parser), 1, Len(errors(C17_Inner[2])) + 1) =
                    Append(errors(C17_Inner[2]), "unexpected token, expected a '(' token")
            /\ ast # Panic => C17_Leftmost(ast) = Err
    /\ (ast # Unset /\ input = <<"(", "1", " ", "+", " ", "2">>) =>
            /\ ast = Err
            /\ errors(parser) = <<"unexpected token, expected a '(' token">>

C17_Witness ==
    /\ input = <<"(", "1", " ", "x", " ", "+", " ", "1">>
    /\ ast = Bin(Err, "+", Num0(1))
    /\ errors(parser) = <<"unexpected token, expected a '(' token">>

\* the top-level expression of the line and the parser after it
C18_TopLevel == parse_expr_bp(ParserFrom(Lexer(input)), 0)

\* C18: when the token after the top-level expression is not the end of the
\* input, parse records the one further diagnostic "unexpected token" and
\* returns the tree parsed so far as it is; at the end of the input it
\* records nothing further
C18_TrailingToken ==
    (ast \notin {Unset, Panic} /\ Lexer(input) # <<>>) =>
        /\ ast = C18_TopLevel[1]
        /\ errors(parser) = IF current_tok(C18_TopLevel[2]) = <<"Eof">>
                            THEN errors(C18_TopLevel[2])
                            ELSE Append(errors(C18_TopLevel[2]), "unexpected token")

C18_Witness ==
    /\ input = <<"(", "x", ")", " ", "1">>
    /\ ast = Id(X)
    /\ errors(parser) = <<"unexpected token">>

(***************************************************************************)
(* Properties of the bindings of a match (SpecRule)                        *)
(***************************************************************************)
\* the wildcard occurrences of a pattern with the sub-expressions they
\* meet, as <<kind, id, sub-expression, path>>, where pattern and
\* expression have one shape; the path tells two occurrences apart
RECURSIVE C19_OccurrencesAt(_, _, _)
C19_OccurrencesAt(p, e, path) ==
    CASE p[1] \in {"any", "anylit", "anynonlit"} -> {<<p[1], p[2], e, path>>}
      [] p[1] = "bin" /\ e[1] = "bin" /\ e[2] = p[2] ->
            C19_OccurrencesAt(p[3], e[3], Append(path, 1))
                \cup C19_OccurrencesAt(p[4], e[4], Append(path, 2))
      [] p[1] = "un" /\ e[1] = "un" /\ e[2] = p[2] ->
            C19_OccurrencesAt(p[3], e[3], Append(path, 1))
      [] OTHER -> {}

C19_Occurrences(p, e) == C19_OccurrencesAt(p, e, <<>>)

\* C19: in a match result with matches = true, an id that the pattern binds
\* through AnyLiteral is bound to a Literal and an id it binds through
\* AnyNonLiteral to a non-Literal; the pattern AnySubExpr matches every
\* expression, Error too, and binds it
C19_WildcardKinds ==
    /\ (matched # Unset /\ matched[2]) =>
          \A o \in C19_Occurrences(rule_pat, subject) :
              /\ o[2] \in DOMAIN matched[3]
              /\ o[1] = "anylit" => matched[3][o[2]][1] = "lit"
              /\ o[1] = "anynonlit" => matched[3][o[2]][1] # "lit"
    /\ (matched # Unset /\ rule_pat[1] = "any") =>
          /\ matched[2]
          /\ matched[3][rule_pat[2]] = subject

C19_Witness ==
    /\ rule_pat = Bin(AnySubExpr(1), "+", AnyLiteral(2))
    /\ subject = Bin(Err, "+", Num0(1))
    /\ matched # Unset /\ matched[2]
    /\ matched[3][1] = Err /\ matched[3][2] = Num0(1)

C21_Linearity ==
    (hist = <<"D", "S">> /\ tree[1] = "bin" /\ tree[2] = "+") =>
        /\ vals[1] # Panic
        /\ vals[2] = Simplify(Bin(derivative(tree[3]), "+", derivative(tree[4])))

C21_Witness ==
    /\ hist = <<"D", "S">> /\ tree = Bin(Id(X), "+", Id(X))
    /\ vals = <<Bin(Num0(1), "+", Num0(1)), Num0(2)>>

\* C22: when apply_rules returns without having reached the iteration cap,
\* the returned expression is a fixed point of the rule set: no template
\* rule matches it, and every handler rule that matches it returns no change
C22_FixedPoint ==
    \A k \in DOMAIN RuleSets :
        (hist = <<RunOf[k]>> /\ ~caps[1] /\ vals[1] # Panic) =>
            \A i \in 1..Len(RuleSets[k]) :
                apply_rule(RuleSets[k][i], vals[1])[1] # "some"

\* the same for the two shipped rule sets
C22_FixedPointShipped ==
    \A k \in {1, 2} :
        (hist = <<RunOf[k]>> /\ ~caps[1] /\ vals[1] # Panic) =>
            \A i \in 1..Len(RuleSets[k]) :
                apply_rule(RuleSets[k][i], vals[1])[1] # "some"

\* C23: one call of apply_rules makes at most MAX_ITERATIONS_PER_APPLY
\* passes over the rules, and when the cap stops the loop the expression
\* rewritten so far is returned and nothing aborts; with the rule set that
\* adds one to a literal in every pass, the literal n comes back as at most
\* n + MAX_ITERATIONS_PER_APPLY
C23_AtMostMaxPasses ==
    /\ \A k \in DOMAIN RuleSets : hist = <<RunOf[k]>> => vals[1] # Panic
    /\ (hist = <<RunOf[4]>> /\ tree[1] = "lit") =>
          /\ caps[1] /\ vals[1][1] = "lit"
          /\ Num(vals[1][2]) * Den(tree[2]) <=
                (Num(tree[2]) + MAX_ITERATIONS_PER_APPLY * Den(tree[2])) * Den(vals[1][2])

\* the same with the 502 passes of the loop: i runs from 0, and the break on
\* i > MAX_ITERATIONS_PER_APPLY comes after the pass
C23_AtMostMaxPlusTwoPasses ==
    /\ \A k \in DOMAIN RuleSets : hist = <<RunOf[k]>> => vals[1] # Panic
    /\ (hist = <<RunOf[4]>> /\ tree[1] = "lit") =>
          /\ caps[1]
          /\ vals[1] = Lit(FAdd(tree[2], F(MAX_ITERATIONS_PER_APPLY + 2)))

\* the rules lo..hi tried one after the other, each against the expression
\* as the rules before it left it
RECURSIVE C24_InOrder(_, _, _, _)
C24_InOrder(rules, lo, hi, e) ==
    CASE lo > hi -> e
      [] lo = hi ->
            (CHOOSE val \in {IF r[1] = "some" THEN r[2] ELSE e :
                             r \in {apply_rule(rules[lo], e)}} : TRUE)
      [] OTHER ->
            (CHOOSE val \in {C24_InOrder(rules, ((lo + hi) \div 2) + 1, hi, h) :
                             h \in {C24_InOrder(rules, lo, (lo + hi) \div 2, e)}} : TRUE)

\* C24: one pass of apply_rules tries the rules in list order, the output
\* of a matching rule replaces the expression at once and the rules after
\* it are tried against the replaced expression: with "_1 * 1" -> "_1"
\* before "_1 + 0" -> "_1", one pass takes (x + 0) * 1 to x.  (That the
\* result is a function of the rule list and the input holds of every
\* operator of this module: apply_rules reads nothing else.)
C24_ListOrder ==
    /\ \A k \in DOMAIN RuleSets :
          (hist = <<PassOf[k]>> /\ vals[1] # Panic) =>
              vals[1] = C24_InOrder(RuleSets[k], 1, Len(RuleSets[k]), tree)
    /\ (hist = <<PassOf[5]>> /\ tree = Bin(Bin(Id(X), "+", Num0(0)), "*", Num0(1))) =>
          vals[1] = Id(X)

C24_Witness ==
    /\ hist = <<PassOf[5]>>
    /\ tree = Bin(Bin(Id(X), "+", Num0(0)), "*", Num0(1))
    /\ vals = <<Id(X)>>

\* C25: derivative applies one rule at the root, the first in declared
\* order whose pattern matches and whose handler does not veto, and does not
\* rewrite the result again (the derivative of x stays the literal 1); an
\* expression no other rule handles, Error for one, gives Error through the
\* catch-all, and derivative returns a tree for every tree
C25_OneRuleAtRoot ==
    (Len(hist) >= 1 /\ hist[1] = "D") =>
        /\ vals[1] # Panic
        /\ \E i \in 1..Len(DERIVATIVE_TRANSFORMS) :
              /\ apply_rule(DERIVATIVE_TRANSFORMS[i], tree) = Some(vals[1])
              /\ \A j \in 1..(i - 1) :
                    apply_rule(DERIVATIVE_TRANSFORMS[j], tree)[1] # "some"
        /\ tree = Err => vals[1] = Err
        /\ tree = Id(X) => vals[1] = Num0(1)

C25_Witness ==
    hist = <<"D">> /\ tree = Bin(Id(X), "-", Id(Y)) /\ vals = <<Err>>

(***************************************************************************)
(* Properties of the shipped rule sets (SpecTree)                          *)
(***************************************************************************)
\* the wildcard ids of a pattern or template, those it binds or reads
\* through a literal wildcard, and those under a unary minus right above a
\* literal wildcard
RECURSIVE C26_Ids(_)
C26_Ids(p) ==
    CASE p[1] \in {"any", "anylit", "anynonlit"} -> {p[2]}
      [] p[1] = "bin" -> C26_Ids(p[3]) \cup C26_Ids(p[4])
      [] p[1] = "un" -> C26_Ids(p[3])
      [] OTHER -> {}
RECURSIVE C26_LiteralIds(_)
C26_LiteralIds(p) ==
    CASE p[1] = "anylit" -> {p[2]}
      [] p[1] = "bin" -> C26_LiteralIds(p[3]) \cup C26_LiteralIds(p[4])
      [] p[1] = "un" -> C26_LiteralIds(p[3])
      [] OTHER -> {}
RECURSIVE C26_NegatedLiteralIds(_)
C26_NegatedLiteralIds(p) ==
    CASE p[1] = "bin" -> C26_NegatedLiteralIds(p[3]) \cup C26_NegatedLiteralIds(p[4])
      [] p[1] = "un" -> IF p[2] = "-" /\ p[3][1] = "anylit" THEN {p[3][2]}
                        ELSE C26_NegatedLiteralIds(p[3])
      [] OTHER -> {}

C26_Bound(pat, out) ==
    /\ C26_Ids(out) \subseteq C26_Ids(pat)
    /\ C26_NegatedLiteralIds(out) \subseteq C26_LiteralIds(pat)

\* C26: in the shipped Simplify and Prettify rule sets every wildcard id of
\* a template (the template the Prettify handler writes included) occurs in
\* the pattern of its rule, and an id under -_litN is bound by a literal
\* wildcard; so no visit of Simplify or Prettify ends in the panic of
\* write_expr
C26_TemplatesBound ==
    /\ \A rs \in {SIMPLIFY_TRANSFORMS, PRETTIFY_TRANSFORMS} :
          \A i \in 1..Len(rs) :
              rs[i].out[1] = "OutPattern" => C26_Bound(rs[i].pattern, rs[i].out[2])
    /\ C26_Bound(PRETTIFY_TRANSFORMS[2].pattern, NEGATIVE_EXPONENT_RULE)
    /\ \A i \in 1..Len(hist) :
          hist[i] \in {"S", "Y", RunOf[1], RunOf[2], PassOf[1], PassOf[2]} => vals[i] # Panic

C26_Witness ==
    /\ hist = <<"Y">> /\ tree = Bin(Id(X), "^", Num0(-1))
    /\ vals = <<Bin(Num0(1), "/", Bin(Id(X), "^", Num0(1)))>>

(***************************************************************************)
(* Properties of rule construction (SpecAuthor)                            *)
(***************************************************************************)
\* the rule parser after parse() on the text, or Panic
C27_Parsed(text) ==
    LET from == RuleParserFrom(RuleLexer(text))
    IN  IF from = Panic THEN Panic ELSE rule_parse_expr_bp(from, 0)[2]
\* a text the rule parser cannot parse completely: no token at all, an
\* error recorded, or tokens left when parse() returns
C27_Malformed(text) ==
    \E ps \in {C27_Parsed(text)} :
        ps = Panic \/ ps[4] # <<>> \/ ps[3] <= Len(ps[2])

\* C27: constructing a rule from a malformed pattern or template string
\* fails fast; a malformed string never yields a rule
C27_MalformedFailsFast ==
    (rule_pat # Unset /\ C27_Malformed(pattern_str)) => rule_pat = Panic

\* C27, as the code behaves: construction fails exactly when the text has no
\* token at all; every other text yields a rule
C27_OnlyEmptyFailsFast ==
    rule_pat # Unset => (rule_pat = Panic <=> RuleLexer(pattern_str) = <<>>)

(***************************************************************************)
(* Properties of Prettify (SpecTree)                                       *)
(***************************************************************************)
\* some Exponent node of e has a negative literal as its right operand
RECURSIVE C28_NegativeExponent(_)
C28_NegativeExponent(e) ==
    CASE e[1] = "bin" ->
            \/ (e[2] = "^" /\ e[4][1] = "lit" /\ FLtZero(e[4][2]))
            \/ C28_NegativeExponent(e[3])
            \/ C28_NegativeExponent(e[4])
      [] e[1] = "un" -> C28_NegativeExponent(e[3])
      [] OTHER -> FALSE

\* C28: the rules of Prettify turn e ^ Literal(n) into 1 / (e ^ Literal(-n))
\* when n < 0 and leave it as it is otherwise, and no Exponent node of the
\* result of Prettify.visit has a negative literal as its right operand
C28_NegativeExponents ==
    /\ (hist = <<RunOf[2]>> /\ tree[1] = "bin" /\ tree[2] = "^" /\ tree[4][1] = "lit") =>
          vals[1] = IF FLtZero(tree[4][2])
                    THEN Bin(Num0(1), "/", Bin(tree[3], "^", Lit(FNeg(tree[4][2]))))
                    ELSE tree
    /\ \A i \in 1..Len(hist) :
          (hist[i] = "Y" /\ vals[i] # Panic) => ~C28_NegativeExponent(vals[i])

C28_Witness ==
    /\ hist = <<"Y">> /\ tree = Bin(Bin(Id(X), "^", Num0(-1)), "^", Num0(-1))
    /\ vals = <<Bin(Num0(1), "/",
                    Bin(Bin(Num0(1), "/", Bin(Id(X), "^", Num0(1))), "^", Num0(1)))>>

(***************************************************************************)
(* Properties of the parser's diagnostics (SpecTrip)                       *)
(***************************************************************************)
\* the number of Error nodes of e
RECURSIVE C29_ErrorNodes(_)
C29_ErrorNodes(e) ==
    CASE e[1] = "err" -> 1
      [] e[1] = "bin" -> C29_ErrorNodes(e[3]) + C29_ErrorNodes(e[4])
      [] e[1] = "un" -> C29_ErrorNodes(e[3])
      [] OTHER -> 0

\* C29: when parse returns, the tree has at most as many Error nodes as the
\* parser has diagnostics; with an empty diagnostics list the tree has no
\* Error node
C29_ErrorsHaveDiagnostics ==
    (pc = "trip" /\ ast # Unset /\ ast # Panic) =>
        /\ C29_ErrorNodes(ast) <= Len(errors(parser))
        /\ errors(parser) = <<>> => ~HasErr(ast)

C29_Witness ==
    /\ pc = "trip" /\ input = <<"(", "1", ")">>
    /\ ast = Num0(1) /\ errors(parser) = <<>>

(***************************************************************************)
(* Properties of Simplify after Prettify (SpecTree)                        *)
(***************************************************************************)
\* the paths of e (1 the left or only operand, 2 the right) that lead to a
\* node that is n
RECURSIVE C30_PathsTo(_, _)
C30_PathsTo(e, n) ==
    (IF e = n THEN {<<>>} ELSE {})
        \cup CASE e[1] = "bin" ->
                    {<<1>> \o q : q \in C30_PathsTo(e[3], n)}
                        \cup {<<2>> \o q : q \in C30_PathsTo(e[4], n)}
               [] e[1] = "un" -> {<<1>> \o q : q \in C30_PathsTo(e[3], n)}
               [] OTHER -> {}

C30_OneOverTwo == Bin(Num0(1), "/", Num0(2))
C30_Shows(text, word) ==
    \E k \in 1..Len(text) :
        k + Len(word) - 1 <= Len(text) /\ SubSeq(text, k, k + Len(word) - 1) = word

====
